---- MODULE Spec2Model ----
(***************************************************************************)
(* Model of the BST agent orchestration tree: the token balancer           *)
(* (shared/utils/token_balancer.py), the node token account                *)
(* (shared/types/node.py) and the process handlers of the 15 tree nodes    *)
(* (tree/Mxxx/src/main.py).                                                *)
(*                                                                         *)
(* A Python float is modelled as the rational <<n, d>> (d > 0, lowest      *)
(* terms) it stands for, every float operation rounding its exact result   *)
(* to the nearest float; Python ints are TLA+ integers.                    *)
(***************************************************************************)
EXTENDS Integers, Sequences, FiniteSets, TLC

VARIABLES
    total_budget,       \* TokenBalancer.total_budget
    leaf_allocations,   \* TokenBalancer.leaf_allocations: id -> AllocationRecord
    node_weights,       \* TokenBalancer.node_weights: id -> NodeWeight
    weight_cache,       \* TokenBalancer._weight_cache: id -> weight
    cache_valid,        \* TokenBalancer._cache_valid
    token_allocation,   \* BSTNode._token_allocation, per node
    tokens_consumed,    \* BSTNode._tokens_consumed, per node
    connected,          \* LeafNode._connected, per leaf
    interface,          \* LeafNode._interface (the mock's state), per leaf
    system_initialized, \* InfrastructureManagerNode._system_initialized
    workflow_history,   \* RootOrchestratorNode._workflow_history
    bytes_transferred,  \* what the external interfaces report during a call
    calls,              \* the process calls made during the last operation
    last,               \* the last operation, its arguments and what it returned
    steps               \* number of operations performed so far

vars == <<steps, total_budget, leaf_allocations, node_weights, weight_cache,
          cache_valid, token_allocation, tokens_consumed, connected,
          interface, system_initialized, workflow_history,
          bytes_transferred, calls, last>>

-----------------------------------------------------------------------------
(* Bounds of the model.                                                    *)

MaxSteps == 3

\* the number of bits of a float's significand that the model keeps (a
\* Python float keeps 53)
Precision == 11

Budgets == {0, 100, 1000}

Amounts == {0, 5, 12, 110}

WeightUpdates ==
    { [historical_usage |-> <<2, 1>>, priority |-> 10],
      [historical_usage |-> <<0, 1>>],
      [priority |-> 1],
      [queue_depth |-> 5, bogus |-> 1],
      [complexity |-> <<1, 2>>],
      [historical_usage |-> <<2^Precision, 1>>],
      [historical_usage |-> <<2^Precision + 2, 1>>],
      [total_weight |-> <<1, 1>>] }

UpdateIds == {"M111", "M112", "M122", "M212"}

RecordIds == {"M111", "M221", "M999"}

PartialRoots == {"M100", "M110", "M210", "M111", "None"}

AccountNodes == {"M111", "M222", "M100"}

-----------------------------------------------------------------------------
(* The fixed 15-node tree.                                                 *)

None == "None"

Leaves == {"M111", "M112", "M121", "M122", "M211", "M212", "M221", "M222"}

Internal == {"M000", "M100", "M200", "M110", "M120", "M210", "M220"}

Nodes == Internal \cup Leaves

left_child_id ==
    [n \in Nodes |->
        CASE n = "M000" -> "M100"
          [] n = "M100" -> "M110"
          [] n = "M200" -> "M210"
          [] n = "M110" -> "M111"
          [] n = "M120" -> "M121"
          [] n = "M210" -> "M211"
          [] n = "M220" -> "M221"
          [] OTHER -> None]

right_child_id ==
    [n \in Nodes |->
        CASE n = "M000" -> "M200"
          [] n = "M100" -> "M120"
          [] n = "M200" -> "M220"
          [] n = "M110" -> "M112"
          [] n = "M120" -> "M122"
          [] n = "M210" -> "M212"
          [] n = "M220" -> "M222"
          [] OTHER -> None]

is_leaf(n) == n \in Leaves

token_budget ==
    [n \in Nodes |->
        CASE n = "M100" -> 35000
          [] n = "M200" -> 55000
          [] n = "M110" -> 10000
          [] n = "M120" -> 20000
          [] n = "M210" -> 25000
          [] n = "M220" -> 10000
          [] n = "M111" -> 5000
          [] n = "M112" -> 3000
          [] n = "M121" -> 8000
          [] n = "M122" -> 10000
          [] n = "M211" -> 15000
          [] n = "M212" -> 8000
          [] n = "M221" -> 12000
          [] n = "M222" -> 10000
          [] OTHER -> 0]

RECURSIVE SubtreeLeaves(_)
SubtreeLeaves(n) ==
    IF n = None THEN {}
    ELSE IF is_leaf(n) THEN {n}
    ELSE SubtreeLeaves(left_child_id[n]) \cup SubtreeLeaves(right_child_id[n])

-----------------------------------------------------------------------------
(* Floats: binary floating point, rounding to nearest, ties to the even    *)
(* significand, which has Precision bits.                                  *)

\* F applied to the value of e: a statement `v = e` followed by the rest of
\* the block, F, in which v is that value
Let(e, F(_)) == CHOOSE y \in {F(v) : v \in {e}} : TRUE

RECURSIVE GCD(_, _)
GCD(a, b) == IF b = 0 THEN a ELSE GCD(b, a % b)

\* the rational n/d in lowest terms
Rat(n, d) ==
    LET g == GCD(IF n < 0 THEN -n ELSE n, d)
    IN  IF n = 0 THEN <<0, 1>> ELSE <<n \div g, d \div g>>

\* the float nearest to the rational x / 2^k, for x >= 0: x itself when it
\* has not been scaled, its numerator fits the significand and its
\* denominator is a small power of two; otherwise x is scaled by powers of
\* two until 2^(Precision-1) <= x < 2^Precision, rounded to the nearest
\* integer (to the even one when it is halfway) and scaled back
RECURSIVE Round(_, _)
Round(x, k) ==
    IF k = 0 /\ x[1] < 2^Precision /\ x[2] \in {1, 2, 4, 8} THEN x
    ELSE IF x[1] = 0 THEN <<0, 1>>
    ELSE IF x[1] \div x[2] < 2^(Precision - 1)
    THEN IF x[2] % 2 = 0 THEN Round(<<x[1], x[2] \div 2>>, k + 1)
         ELSE Round(<<2 * x[1], x[2]>>, k + 1)
    ELSE IF x[1] \div x[2] >= 2^Precision
    THEN IF x[1] % 2 = 0 THEN Round(<<x[1] \div 2, x[2]>>, k - 1)
         ELSE Round(<<x[1], 2 * x[2]>>, k - 1)
    ELSE LET q == x[1] \div x[2]
             r == x[1] % x[2]
             m == IF 2 * r > x[2] \/ (2 * r = x[2] /\ q % 2 = 1)
                  THEN q + 1 ELSE q
         IN  IF k >= 0 THEN Rat(m, 2^k) ELSE <<m * 2^(0 - k), 1>>

RMul(x, y) == Round(Rat(x[1] * y[1], x[2] * y[2]), 0)

RAdd(x, y) == Round(Rat(x[1] * y[2] + y[1] * x[2], x[2] * y[2]), 0)

\* x / y for y > 0
RDiv(x, y) == Round(Rat(x[1] * y[2], x[2] * y[1]), 0)

RLess(x, y) == x[1] * y[2] < y[1] * x[2]

\* int(b * (x / y)) for b >= 0, x >= 0, y > 0
IntScaled(b, x, y) ==
    Let(RMul(<<b, 1>>, RDiv(x, y)), LAMBDA p : p[1] \div p[2])

RECURSIVE SumOver(_, _)
SumOver(f, S) ==
    IF S = {} THEN 0
    ELSE LET x == CHOOSE y \in S : TRUE
         IN  f[x] + SumOver(f, S \ {x})

Restrict(f, S) == [x \in S |-> f[x]]


-----------------------------------------------------------------------------
(* NodeWeight and AllocationRecord.                                        *)

NodeWeight ==
    [historical_usage |-> <<1, 1>>, queue_depth |-> 0,
     complexity |-> <<1, 1>>, priority |-> 5]

total_weight(nw) ==
    LET base            == RMul(nw.historical_usage, nw.complexity)
        queue_factor    == RAdd(<<1, 1>>, RMul(<<nw.queue_depth, 1>>,
                                               Round(<<1, 10>>, 0)))
        priority_factor == RDiv(<<nw.priority, 1>>, <<5, 1>>)
    IN  RMul(RMul(base, queue_factor), priority_factor)

AllocationRecord(a) == [allocated |-> a, consumed |-> 0]

\* AllocationRecord.utilization > 4/5, < 1/5
utilization(rec) ==
    IF rec.allocated = 0 THEN <<0, 1>>
    ELSE RDiv(<<rec.consumed, 1>>, <<rec.allocated, 1>>)

-----------------------------------------------------------------------------
(* The mutable state as one record, threaded through the operations.       *)

World ==
    [total_budget     |-> total_budget,
     leaf_allocations |-> leaf_allocations,
     node_weights     |-> node_weights,
     weight_cache     |-> weight_cache,
     cache_valid      |-> cache_valid,
     token_allocation |-> token_allocation,
     tokens_consumed  |-> tokens_consumed,
     connected        |-> connected,
     interface        |-> interface,
     system_initialized |-> system_initialized,
     workflow_history |-> workflow_history,
     bytes_transferred |-> bytes_transferred,
     calls            |-> calls]

WorldIs(w) ==
    /\ total_budget = w.total_budget
    /\ leaf_allocations = w.leaf_allocations
    /\ node_weights = w.node_weights
    /\ weight_cache = w.weight_cache
    /\ cache_valid = w.cache_valid
    /\ token_allocation = w.token_allocation
    /\ tokens_consumed = w.tokens_consumed
    /\ connected = w.connected
    /\ interface = w.interface
    /\ system_initialized = w.system_initialized
    /\ workflow_history = w.workflow_history
    /\ bytes_transferred = w.bytes_transferred
    /\ calls = w.calls

SetWorld(w) ==
    /\ total_budget' = w.total_budget
    /\ leaf_allocations' = w.leaf_allocations
    /\ node_weights' = w.node_weights
    /\ weight_cache' = w.weight_cache
    /\ cache_valid' = w.cache_valid
    /\ token_allocation' = w.token_allocation
    /\ tokens_consumed' = w.tokens_consumed
    /\ connected' = w.connected
    /\ interface' = w.interface
    /\ system_initialized' = w.system_initialized
    /\ workflow_history' = w.workflow_history
    /\ bytes_transferred' = w.bytes_transferred
    /\ calls' = w.calls

-----------------------------------------------------------------------------
(* BSTNode token account.                                                  *)

tokens_remaining(w, n) == w.token_allocation[n] - w.tokens_consumed[n]

\* variant: a request for exactly the remaining tokens is rejected
consume_tokens_strict(w, n, amount) ==
    IF amount >= tokens_remaining(w, n)
    THEN [w |-> w, ret |-> FALSE]
    ELSE [w |-> [w EXCEPT !.tokens_consumed[n] = @ + amount], ret |-> TRUE]

consume_tokens(w, n, amount) ==
    IF amount > tokens_remaining(w, n)
    THEN [w |-> w, ret |-> FALSE]
    ELSE [w |-> [w EXCEPT !.tokens_consumed[n] = @ + amount], ret |-> TRUE]

\* variant: the tokens are added to the allocation the node has
set_allocation_adding(w, n, tokens) ==
    [w EXCEPT !.token_allocation[n] = @ + tokens]

set_allocation(w, n, tokens) == [w EXCEPT !.token_allocation[n] = tokens]

-----------------------------------------------------------------------------
(* TokenBalancer.                                                          *)

\* variant: what is left of the allocation after the recorded consumption
get_allocation_remaining(w, id) ==
    IF id \in DOMAIN w.leaf_allocations
    THEN w.leaf_allocations[id].allocated - w.leaf_allocations[id].consumed
    ELSE 0

get_allocation(w, id) ==
    IF id \in DOMAIN w.leaf_allocations
    THEN w.leaf_allocations[id].allocated
    ELSE 0

\* variant: the cache is kept and trusted
invalidate_cache_keeping(w) ==
    [w EXCEPT !.cache_valid = TRUE]

invalidate_cache(w) ==
    [w EXCEPT !.cache_valid = FALSE, !.weight_cache = <<>>]

get_node_weight(w, id) ==
    IF id \notin DOMAIN w.node_weights
    THEN [w EXCEPT !.node_weights = (id :> NodeWeight) @@ @]
    ELSE w

RECURSIVE calculate_weight(_, _)
calculate_weight(w, node) ==
    IF node = None THEN [w |-> w, weight |-> <<0, 1>>]
    ELSE IF w.cache_valid /\ node \in DOMAIN w.weight_cache
    THEN [w |-> w, weight |-> w.weight_cache[node]]
    ELSE
      Let(IF is_leaf(node)
          THEN Let(get_node_weight(w, node), LAMBDA w1 :
                 [w |-> w1, weight |-> total_weight(w1.node_weights[node])])
          ELSE Let(calculate_weight(w, left_child_id[node]), LAMBDA l :
               Let(calculate_weight(l.w, right_child_id[node]), LAMBDA rr :
                 [w |-> rr.w, weight |-> RAdd(l.weight, rr.weight)])),
          LAMBDA r :
            [w |-> [r.w EXCEPT !.weight_cache = (node :> r.weight) @@ @],
             weight |-> r.weight])

\* variant: the right share is truncated like the left one
RECURSIVE distribute_truncating(_, _, _)
distribute_truncating(w, node, available_budget) ==
    IF node = None THEN w
    ELSE IF is_leaf(node)
    THEN set_allocation(
           [w EXCEPT !.leaf_allocations =
                (node :> AllocationRecord(available_budget)) @@ @],
           node, available_budget)
    ELSE
      Let(calculate_weight(w, left_child_id[node]), LAMBDA l :
      Let(calculate_weight(l.w, right_child_id[node]), LAMBDA r :
      Let(RAdd(l.weight, r.weight), LAMBDA sum :
      Let(IF sum[1] = 0 THEN <<1, 1>> ELSE sum, LAMBDA total :
      Let(IntScaled(available_budget, l.weight, total), LAMBDA left_budget :
      Let(IntScaled(available_budget, r.weight, total), LAMBDA right_budget :
      Let(distribute_truncating(r.w, left_child_id[node], left_budget), LAMBDA w1 :
        distribute_truncating(w1, right_child_id[node], right_budget))))))))

RECURSIVE distribute(_, _, _)
distribute(w, node, available_budget) ==
    IF node = None THEN w
    ELSE IF is_leaf(node)
    THEN set_allocation(
           [w EXCEPT !.leaf_allocations =
                (node :> AllocationRecord(available_budget)) @@ @],
           node, available_budget)
    ELSE
      Let(calculate_weight(w, left_child_id[node]), LAMBDA l :
      Let(calculate_weight(l.w, right_child_id[node]), LAMBDA r :
      Let(RAdd(l.weight, r.weight), LAMBDA sum :
      Let(IF sum[1] = 0 THEN <<1, 1>> ELSE sum, LAMBDA total :
      Let(IntScaled(available_budget, l.weight, total), LAMBDA left_budget :
      Let(available_budget - left_budget, LAMBDA right_budget :
      Let(distribute(r.w, left_child_id[node], left_budget), LAMBDA w1 :
        distribute(w1, right_child_id[node], right_budget))))))))

allocation_map(w) ==
    [k \in DOMAIN w.leaf_allocations |-> w.leaf_allocations[k].allocated]

balance_tokens(w, tree_root) ==
    Let(distribute(invalidate_cache(w), tree_root, w.total_budget), LAMBDA w1 :
      [w |-> w1, ret |-> allocation_map(w1)])

WeightKeys == {"historical_usage", "queue_depth", "complexity", "priority"}

\* setattr for every keyword that names an attribute of the NodeWeight.  The
\* property total_weight is such an attribute and has no setter: setattr
\* raises AttributeError there, after the fields named before it were set
\* (callers here name it alone) and before the cache is invalidated.
update_weight(w, id, kwargs) ==
    Let(get_node_weight(w, id), LAMBDA w1 :
      IF "total_weight" \in DOMAIN kwargs THEN w1
      ELSE invalidate_cache(
        [w1 EXCEPT !.node_weights[id] =
            [k \in WeightKeys |-> IF k \in DOMAIN kwargs THEN kwargs[k] ELSE @[k]]]))

\* variant: the record keeps the last amount only
record_consumption_overwriting(w, id, tokens_used) ==
    IF id \in DOMAIN w.leaf_allocations
    THEN [w EXCEPT !.leaf_allocations[id].consumed = tokens_used]
    ELSE w

record_consumption(w, id, tokens_used) ==
    IF id \in DOMAIN w.leaf_allocations
    THEN [w EXCEPT !.leaf_allocations[id].consumed = @ + tokens_used]
    ELSE w

\* variant: the budget that the subtree has not consumed yet
RECURSIVE get_subtree_budget_remaining(_, _)
get_subtree_budget_remaining(w, node) ==
    IF node = None THEN 0
    ELSE IF is_leaf(node) THEN get_allocation_remaining(w, node)
    ELSE get_subtree_budget_remaining(w, left_child_id[node])
         + get_subtree_budget_remaining(w, right_child_id[node])

RECURSIVE get_subtree_budget(_, _)
get_subtree_budget(w, node) ==
    IF node = None THEN 0
    ELSE IF is_leaf(node) THEN get_allocation(w, node)
    ELSE get_subtree_budget(w, left_child_id[node])
         + get_subtree_budget(w, right_child_id[node])

\* variant: every record is dropped, as rebalance_full does
clear_subtree_allocations_all(w, node) ==
    [w EXCEPT !.leaf_allocations = <<>>]

RECURSIVE clear_subtree_allocations(_, _)
clear_subtree_allocations(w, node) ==
    IF node = None THEN w
    ELSE
      Let(IF is_leaf(node) /\ node \in DOMAIN w.leaf_allocations
          THEN [w EXCEPT !.leaf_allocations = Restrict(@, DOMAIN @ \ {node})]
          ELSE w, LAMBDA w1 :
      Let(clear_subtree_allocations(w1, left_child_id[node]), LAMBDA w2 :
        clear_subtree_allocations(w2, right_child_id[node])))

rebalance_partial(w, subtree_root) ==
    IF subtree_root = None THEN [w |-> w, ret |-> <<>>]
    ELSE
      Let(get_subtree_budget(w, subtree_root), LAMBDA subtree_budget :
      Let(clear_subtree_allocations(w, subtree_root), LAMBDA w1 :
      Let(distribute(w1, subtree_root, subtree_budget), LAMBDA w2 :
        [w |-> w2, ret |-> allocation_map(w2)])))

\* the historical_usage adjustment of one node that has an allocation record
adjust_historical_usage(w, node) ==
    Let(utilization(w.leaf_allocations[node]), LAMBDA u :
    Let(get_node_weight(w, node), LAMBDA wg :
      IF RLess(Round(<<4, 5>>, 0), u)
      THEN [wg EXCEPT !.node_weights[node].historical_usage = RMul(@, Round(<<11, 10>>, 0))]
      ELSE IF RLess(u, Round(<<1, 5>>, 0))
      THEN [wg EXCEPT !.node_weights[node].historical_usage = RMul(@, Round(<<9, 10>>, 0))]
      ELSE wg))

RECURSIVE recalculate_all_weights(_, _)
recalculate_all_weights(w, node) ==
    IF node = None THEN w
    ELSE
      Let(IF node \in DOMAIN w.leaf_allocations
          THEN adjust_historical_usage(w, node)
          ELSE w, LAMBDA w1 :
      Let(recalculate_all_weights(w1, left_child_id[node]), LAMBDA w2 :
        recalculate_all_weights(w2, right_child_id[node])))

\* variant: the weights are recalculated from the records of the distribution
\* that has just been made
rebalance_full_adjusting(w, tree_root) ==
    Let([invalidate_cache(w) EXCEPT !.leaf_allocations = <<>>], LAMBDA w0 :
    Let(distribute(w0, tree_root, w.total_budget), LAMBDA w1 :
    Let(recalculate_all_weights(w1, tree_root), LAMBDA w2 :
      [w |-> w2, ret |-> allocation_map(w2)])))

rebalance_full(w, tree_root) ==
    Let([invalidate_cache(w) EXCEPT !.leaf_allocations = <<>>], LAMBDA w0 :
    Let(recalculate_all_weights(w0, tree_root), LAMBDA w1 :
    Let(distribute(w1, tree_root, w.total_budget), LAMBDA w2 :
      [w |-> w2, ret |-> allocation_map(w2)])))

-----------------------------------------------------------------------------
(* Requests and results.                                                   *)
(*                                                                         *)
(* A request (input_data) is a map from keys to values.  Texts are strings *)
(* or, where only their length matters (messages), that length; an error   *)
(* text is the sequence of its pieces, None being the empty sequence.      *)
(* The payloads the external interfaces carry are kept abstract: what a    *)
(* successful transfer reports as bytes_transferred is the variable of     *)
(* that name, chosen anew for every operation.                             *)

\* input_data.get(key, default)
Get(input_data, key, default) ==
    IF key \in DOMAIN input_data THEN input_data[key] ELSE default

NoText == <<>>

NodeResult(success, data, error, tokens_used, node_id) ==
    [success |-> success, data |-> data, error |-> error,
     tokens_used |-> tokens_used, node_id |-> node_id]

InterfaceResult(success, data, error, bytes) ==
    [success |-> success, data |-> data, error |-> error,
     bytes_transferred |-> bytes]

\* what a call of process comes to: a NodeResult returned, or a fault raised
Returned(w, result) == [w |-> w, raised |-> FALSE, result |-> result]

Raised(w, text) ==
    [w |-> w, raised |-> TRUE, result |-> NodeResult(FALSE, <<>>, text, 0, None)]

\* values that are not what the code expects
Unhashable == "<unhashable>"

NotAString == "<not a string>"

\* a text where the code formats a number
NotANumber == "<not a number>"

\* a payload that is no dict, where the code expects one; every other payload
\* is a map (the empty map <<>> for {})
NotAMapping == [not_a_mapping |-> TRUE]

IsMapping(data) == "not_a_mapping" \notin DOMAIN data

\* len(s) of the texts that requests carry
StrLen(s) ==
    CASE s = "config/settings.yaml" -> 20
      [] s = "tenants.xlsx" -> 12
      [] s = "logs/app.log" -> 12
      [] s = "config/a-very-long-directory-name/with-more-nested-directories/and-still-more/settings.production.yaml" -> 102
      [] s = "unhashable type: 'list'" -> 23
      [] s = "'list' object has no attribute 'get'" -> 36
      [] s = "Unknown" -> 7
      [] OTHER -> 8

NoInterface == <<>>

-----------------------------------------------------------------------------
(* Leaves.  Every leaf connects on first use, computes tokens_used from    *)
(* its base cost, debits them with consume_tokens, whose verdict it does   *)
(* not look at, and returns.                                               *)

\* variant: the leaf reports what it consumed to the balancer
leaf_return_recording(w, id, tokens_used, result) ==
    Returned(record_consumption(consume_tokens(w, id, tokens_used).w,
                                id, tokens_used),
             NodeResult(result.success, result.data, result.error,
                        tokens_used, id))

\* the tail of a leaf's try block: self.consume_tokens(tokens_used); return
leaf_return(w, id, tokens_used, result) ==
    Returned(consume_tokens(w, id, tokens_used).w,
             NodeResult(result.success, result.data, result.error,
                        tokens_used, id))

\* the else branch of a leaf's dispatch
leaf_unknown(w, id, tokens_used, action) ==
    Returned(w, NodeResult(FALSE, <<>>, <<"Unknown action: ", action>>,
                           tokens_used, id))

\* the except branch of a leaf
leaf_except(w, id, tokens_used, text) ==
    Returned(w, NodeResult(FALSE, <<>>, text, tokens_used, id))

connect(w, id, fresh) ==
    [w EXCEPT !.interface[id] = fresh, !.connected[id] = TRUE]

disconnect(w, id) ==
    [w EXCEPT !.interface[id] = NoInterface, !.connected[id] = FALSE]

\* ---- M111: YAML configuration files ----

MockYAMLInterface == [storage |-> <<>>]

M111_read(iface, path, bytes) ==
    [iface |-> iface,
     result |-> InterfaceResult(TRUE,
                  IF path \in DOMAIN iface.storage
                  THEN [stored |-> iface.storage[path]]
                  ELSE [default_config |-> TRUE],
                  NoText, bytes)]

M111_write(iface, path, data, bytes) ==
    [iface |-> [iface EXCEPT !.storage = (path :> data) @@ @],
     result |-> InterfaceResult(TRUE, [path |-> path, written |-> TRUE],
                                NoText, bytes)]

M111_process(w0, input_data) ==
    Let(IF ~w0.connected["M111"] THEN connect(w0, "M111", MockYAMLInterface)
        ELSE w0, LAMBDA w :
    Let(Get(input_data, "action", "read"), LAMBDA action :
    Let(Get(input_data, "path", "config/settings.yaml"), LAMBDA path :
      IF action = "read"
      THEN IF path = Unhashable
           THEN leaf_except(w, "M111", 10, <<"unhashable type: 'list'">>)
           ELSE Let(M111_read(w.interface["M111"], path, w.bytes_transferred),
                LAMBDA r :
                  leaf_return(w, "M111",
                              10 + r.result.bytes_transferred \div 100,
                              r.result))
      ELSE IF action = "write"
      THEN IF path = Unhashable
           THEN leaf_except(w, "M111", 10, <<"unhashable type: 'list'">>)
           ELSE Let(M111_write(w.interface["M111"], path,
                               Get(input_data, "data", <<>>),
                               w.bytes_transferred), LAMBDA r :
                  leaf_return([w EXCEPT !.interface["M111"] = r.iface], "M111",
                              10 + r.result.bytes_transferred \div 50,
                              r.result))
      ELSE leaf_unknown(w, "M111", 10, action))))

\* ---- M112: log files ----

LogLevel == {"DEBUG", "INFO", "WARNING", "ERROR", "CRITICAL"}

MockLogInterface == [logs |-> <<>>]

\* the number of entries of a log
M112_entries(iface, path) ==
    IF path \in DOMAIN iface.logs THEN iface.logs[path] ELSE 0

M112_read(iface, path, bytes) ==
    [iface |-> iface,
     result |-> InterfaceResult(TRUE, [count |-> M112_entries(iface, path)],
                  NoText,
                  IF M112_entries(iface, path) = 0 THEN 0 ELSE bytes)]

M112_write(iface, path, bytes) ==
    [iface |-> [iface EXCEPT !.logs =
                   (path :> M112_entries(iface, path) + 1) @@ @],
     result |-> InterfaceResult(TRUE,
                  [path |-> path, entries |-> M112_entries(iface, path) + 1],
                  NoText, bytes)]

M112_clear(iface, path) ==
    IF path \in DOMAIN iface.logs
    THEN [iface EXCEPT !.logs[path] = 0]
    ELSE iface

M112_process(w0, input_data) ==
    Let(IF ~w0.connected["M112"] THEN connect(w0, "M112", MockLogInterface)
        ELSE w0, LAMBDA w :
    Let(Get(input_data, "action", "log"), LAMBDA action :
    Let(Get(input_data, "path", "logs/app.log"), LAMBDA path :
      IF action = "log"
      THEN Let(Get(input_data, "level", "INFO"), LAMBDA level_str :
           IF level_str \notin LogLevel
           THEN leaf_except(w, "M112", 5, <<"'", level_str, "'">>)
           ELSE IF path = Unhashable
           THEN leaf_except(w, "M112", 5, <<"unhashable type: 'list'">>)
           ELSE Let(M112_write(w.interface["M112"], path, w.bytes_transferred),
                LAMBDA r :
                  leaf_return([w EXCEPT !.interface["M112"] = r.iface], "M112",
                              5 + Get(input_data, "message", 0) \div 100,
                              r.result)))
      ELSE IF action = "read"
      THEN IF path = Unhashable
           THEN leaf_except(w, "M112", 5, <<"unhashable type: 'list'">>)
           ELSE Let(M112_read(w.interface["M112"], path, w.bytes_transferred),
                LAMBDA r :
                  leaf_return(w, "M112",
                              5 + r.result.bytes_transferred \div 200,
                              r.result))
      ELSE IF action = "clear"
      THEN IF path = Unhashable
           THEN leaf_except(w, "M112", 5, <<"unhashable type: 'list'">>)
           ELSE leaf_return(
                  [w EXCEPT !.interface["M112"] = M112_clear(@, path)], "M112",
                  5, InterfaceResult(TRUE, [cleared |-> path], NoText, 0))
      ELSE leaf_unknown(w, "M112", 5, action))))

\* ---- M121: Excel workbooks ----

\* a row of a sheet or of a table: a map with an id
Row(id) == [id |-> id]

MockExcelInterface ==
    [workbooks |-> ("tenants.xlsx" :> [Sheet1 |-> <<Row(1), Row(2), Row(3)>>])]

M121_read(iface, path, bytes) ==
    [iface |-> iface,
     result |-> IF path \notin DOMAIN iface.workbooks
                THEN InterfaceResult(FALSE, <<>>, <<"File not found: ", path>>, 0)
                ELSE InterfaceResult(TRUE, iface.workbooks[path], NoText, bytes)]

M121_write(iface, path, data, bytes) ==
    [iface |-> [iface EXCEPT !.workbooks = (path :> data) @@ @],
     result |-> InterfaceResult(TRUE, [path |-> path, sheets |-> DOMAIN data],
                                NoText, bytes)]

M121_get_sheet(iface, path, sheet) ==
    IF path \in DOMAIN iface.workbooks /\ sheet \in DOMAIN iface.workbooks[path]
    THEN iface.workbooks[path][sheet]
    ELSE <<>>

M121_add_row(iface, path, sheet, row) ==
    [iface EXCEPT !.workbooks =
        (path :> ((sheet :> Append(M121_get_sheet(iface, path, sheet), row))
                  @@ (IF path \in DOMAIN @ THEN @[path] ELSE <<>>))) @@ @]

M121_process(w0, input_data) ==
    Let(IF ~w0.connected["M121"] THEN connect(w0, "M121", MockExcelInterface)
        ELSE w0, LAMBDA w :
    Let(Get(input_data, "action", "read"), LAMBDA action :
    Let(Get(input_data, "path", "tenants.xlsx"), LAMBDA path :
    Let(Get(input_data, "sheet", "Sheet1"), LAMBDA sheet :
      IF action \in {"read", "write", "get_sheet", "add_row"} /\ path = Unhashable
      THEN leaf_except(w, "M121", 15, <<"unhashable type: 'list'">>)
      ELSE IF action = "read"
      THEN Let(M121_read(w.interface["M121"], path, w.bytes_transferred),
           LAMBDA r :
             leaf_return(w, "M121", 15 + r.result.bytes_transferred \div 50,
                         r.result))
      ELSE IF action = "write"
      THEN Let(Get(input_data, "data", <<>>), LAMBDA data :
           IF ~IsMapping(data)
           THEN \* the workbook is stored before data.keys() faults
                leaf_except([w EXCEPT !.interface["M121"].workbooks =
                                (path :> data) @@ @], "M121", 15,
                            <<"'list' object has no attribute 'keys'">>)
           ELSE Let(M121_write(w.interface["M121"], path, data,
                               w.bytes_transferred), LAMBDA r :
                  leaf_return([w EXCEPT !.interface["M121"] = r.iface], "M121",
                              15 + r.result.bytes_transferred \div 25,
                              r.result)))
      ELSE IF action = "get_sheet"
      THEN Let(M121_get_sheet(w.interface["M121"], path, sheet),
           LAMBDA sheet_data :
             leaf_return(w, "M121", 15 + Len(sheet_data) * 5,
                         InterfaceResult(TRUE, sheet_data, NoText,
                                         w.bytes_transferred)))
      ELSE IF action = "add_row"
      THEN Let(Get(input_data, "data", <<>>), LAMBDA row_data :
             leaf_return([w EXCEPT !.interface["M121"] =
                             M121_add_row(@, path, sheet, row_data)], "M121",
                         15 + 20,
                         InterfaceResult(TRUE, [added |-> row_data], NoText, 0)))
      ELSE leaf_unknown(w, "M121", 15, action)))))

\* ---- M122: SQL database ----

MockDatabaseInterface ==
    [connected |-> FALSE,
     tenants |-> <<Row(1), Row(2), Row(3)>>,
     payments |-> <<[id |-> 1, tenant_id |-> 1], [id |-> 2, tenant_id |-> 2]>>,
     auto_increment |-> [tenants |-> 4, payments |-> 3]]

\* the statements requests carry, by the words the mock looks for in them
Sql ==
    [select_tenants |-> {"SELECT * FROM tenants"},
     select_tenants_where |-> {"SELECT * FROM tenants WHERE id = :id"},
     select_payments |-> {"SELECT * FROM payments",
                          "SELECT * FROM payments WHERE tenant_id = :tenant_id"},
     select_other |-> {"SELECT 1"},
     insert_tenants |-> {"INSERT INTO tenants"},
     insert_payments |-> {"INSERT INTO payments"},
     update_tenants |-> {"UPDATE tenants SET balance = :balance WHERE id = :id"},
     delete_tenants |-> {"DELETE FROM tenants WHERE id = :id"}]

\* None where an id is expected: it equals no row's id
NoId == 0

\* len(str(data)) of a list of rows: "[]" when it is empty
ListBytes(rows, bytes) == IF Len(rows) = 0 THEN 2 ELSE bytes

M122_query(iface, sql, params, bytes) ==
    IF ~iface.connected
    THEN InterfaceResult(FALSE, <<>>, <<"Not connected">>, 0)
    ELSE IF sql \in Sql.select_tenants
    THEN InterfaceResult(TRUE, iface.tenants, NoText,
                         ListBytes(iface.tenants, bytes))
    ELSE IF sql \in Sql.select_tenants_where
    THEN Let(IF "id" \in DOMAIN params
             THEN SelectSeq(iface.tenants, LAMBDA t : t.id = params.id)
             ELSE iface.tenants, LAMBDA data :
           InterfaceResult(TRUE, data, NoText, ListBytes(data, bytes)))
    ELSE IF sql \in Sql.select_payments
    THEN Let(IF "tenant_id" \in DOMAIN params
             THEN SelectSeq(iface.payments,
                            LAMBDA p : p.tenant_id = params.tenant_id)
             ELSE iface.payments, LAMBDA data :
           InterfaceResult(TRUE, data, NoText, ListBytes(data, bytes)))
    ELSE IF sql \in Sql.select_other
    THEN InterfaceResult(TRUE, <<>>, NoText, 2)
    ELSE InterfaceResult(FALSE, <<>>, <<"Invalid query">>, 0)

M122_execute(iface, sql, params) ==
    IF ~iface.connected
    THEN [iface |-> iface,
          result |-> InterfaceResult(FALSE, <<>>, <<"Not connected">>, 0)]
    ELSE IF sql \in Sql.insert_tenants
    THEN Let(iface.auto_increment.tenants, LAMBDA new_id :
           [iface |-> [iface EXCEPT
                          !.tenants = Append(@, [id |-> new_id] @@ params),
                          !.auto_increment.tenants = new_id + 1],
            result |-> InterfaceResult(TRUE,
                         [id |-> new_id, action |-> "insert"], NoText, 0)])
    ELSE IF sql \in Sql.insert_payments
    THEN Let(iface.auto_increment.payments, LAMBDA new_id :
           [iface |-> [iface EXCEPT
                          !.payments = Append(@, [id |-> new_id] @@ params),
                          !.auto_increment.payments = new_id + 1],
            result |-> InterfaceResult(TRUE,
                         [id |-> new_id, action |-> "insert"], NoText, 0)])
    ELSE IF /\ sql \in Sql.update_tenants
            /\ "id" \in DOMAIN params
            /\ \E i \in 1..Len(iface.tenants) : iface.tenants[i].id = params.id
    THEN Let(CHOOSE i \in 1..Len(iface.tenants) :
                /\ iface.tenants[i].id = params.id
                /\ \A j \in 1..(i - 1) : iface.tenants[j].id # params.id,
         LAMBDA i :
           [iface |-> [iface EXCEPT !.tenants[i] = params @@ @],
            result |-> InterfaceResult(TRUE,
                         [action |-> "update", id |-> params.id], NoText, 0)])
    ELSE IF sql \in Sql.delete_tenants /\ "id" \in DOMAIN params
    THEN [iface |-> [iface EXCEPT !.tenants =
                        SelectSeq(@, LAMBDA t : t.id # params.id)],
          result |-> InterfaceResult(TRUE,
                       [action |-> "delete", id |-> params.id], NoText, 0)]
    ELSE [iface |-> iface,
          result |-> InterfaceResult(FALSE, <<>>, <<"Invalid statement">>, 0)]

\* connect(): a new MockDatabaseInterface, then its connect("sqlite:///tenant.db")
M122_connect(w) ==
    connect(w, "M122", [MockDatabaseInterface EXCEPT !.connected = TRUE])

\* disconnect(): the interface object is kept, disconnected
M122_disconnect(w) ==
    [w EXCEPT !.interface["M122"] =
                 IF "connected" \in DOMAIN @
                 THEN [@ EXCEPT !.connected = FALSE] ELSE @,
              !.connected["M122"] = FALSE]

M122_process(w0, input_data) ==
    Let(IF ~w0.connected["M122"] THEN M122_connect(w0) ELSE w0, LAMBDA w :
    Let(Get(input_data, "action", "query"), LAMBDA action :
    Let(w.interface["M122"], LAMBDA iface :
      IF action = "query"
      THEN Let(M122_query(iface, Get(input_data, "sql", ""),
                          Get(input_data, "params", <<>>),
                          w.bytes_transferred), LAMBDA result :
             leaf_return(w, "M122", 20 + result.bytes_transferred \div 20,
                         result))
      ELSE IF action = "execute"
      THEN Let(Get(input_data, "params", <<>>), LAMBDA params :
           IF ~IsMapping(params)
              /\ Get(input_data, "sql", "") \in Sql.insert_tenants \cup Sql.insert_payments
           THEN leaf_except(w, "M122", 20,
                            <<"'list' object is not a mapping">>)
           ELSE Let(M122_execute(iface, Get(input_data, "sql", ""), params),
                LAMBDA r :
                  leaf_return([w EXCEPT !.interface["M122"] = r.iface], "M122",
                              20 + 30, r.result)))
      ELSE IF action = "get_tenant"
      THEN Let(M122_query(iface, "SELECT * FROM tenants WHERE id = :id",
                          [id |-> Get(input_data, "id", NoId)],
                          w.bytes_transferred), LAMBDA result :
             leaf_return(w, "M122", 20 + 25, result))
      ELSE IF action = "get_tenants"
      THEN Let(M122_query(iface, "SELECT * FROM tenants", <<>>,
                          w.bytes_transferred), LAMBDA result :
             leaf_return(w, "M122",
                         20 + (IF result.success THEN Len(result.data) * 5
                               ELSE 10),
                         result))
      ELSE IF action = "add_tenant"
      THEN Let(Get(input_data, "data", <<>>), LAMBDA data :
           IF ~IsMapping(data)
           THEN leaf_except(w, "M122", 20,
                            <<"'list' object is not a mapping">>)
           ELSE Let(M122_execute(iface, "INSERT INTO tenants", data),
                LAMBDA r :
                  leaf_return([w EXCEPT !.interface["M122"] = r.iface], "M122",
                              20 + 40, r.result)))
      ELSE IF action = "get_payments"
      THEN Let(M122_query(iface,
                          "SELECT * FROM payments WHERE tenant_id = :tenant_id",
                          [tenant_id |-> Get(input_data, "tenant_id", NoId)],
                          w.bytes_transferred), LAMBDA result :
             leaf_return(w, "M122",
                         20 + (IF result.success THEN Len(result.data) * 3
                               ELSE 10),
                         result))
      ELSE leaf_unknown(w, "M122", 20, action))))

\* ---- M211: MCP tools ----

MCPTools == {"get_tenant_info", "calculate_balance", "send_notification",
             "generate_report", "analyze_payments"}

\* the tools whose simulated output reads the payload with payload.get
MCPToolsReadingPayload == {"get_tenant_info", "calculate_balance"}

MockMCPToolsInterface == [tools |-> MCPTools]

M211_call(iface, tool_name, payload, bytes) ==
    IF tool_name \notin iface.tools
    THEN InterfaceResult(FALSE, <<>>, <<"Tool not found: ", tool_name>>, 0)
    ELSE InterfaceResult(TRUE,
           [tool |-> tool_name, input |-> payload, output |-> [tool |-> tool_name]],
           NoText, bytes)

M211_process(w0, input_data) ==
    Let(IF ~w0.connected["M211"] THEN connect(w0, "M211", MockMCPToolsInterface)
        ELSE w0, LAMBDA w :
    Let(Get(input_data, "action", "call"), LAMBDA action :
      IF action = "call"
      THEN Let(Get(input_data, "tool", ""), LAMBDA tool_name :
           Let(Get(input_data, "params", <<>>), LAMBDA params :
           IF tool_name \in MCPToolsReadingPayload /\ ~IsMapping(params)
           THEN leaf_except(w, "M211", 50,
                            <<"'list' object has no attribute 'get'">>)
           ELSE Let(M211_call(w.interface["M211"], tool_name, params,
                              w.bytes_transferred), LAMBDA result :
                  leaf_return(w, "M211",
                              50 + result.bytes_transferred \div 10, result))))
      ELSE IF action = "list"
      THEN leaf_return(w, "M211",
                       50 + Cardinality(w.interface["M211"].tools) * 10,
                       InterfaceResult(TRUE, [tools |-> w.interface["M211"].tools],
                                       NoText, 0))
      ELSE IF action = "status"
      THEN leaf_return(w, "M211", 50 + 5,
                       InterfaceResult(TRUE,
                         [available |-> TRUE,
                          tools_count |-> Cardinality(w.interface["M211"].tools)],
                         NoText, 0))
      ELSE leaf_unknown(w, "M211", 50, action)))

\* ---- M212: MCP resources ----

MCPResources == {"prompt://tenant-report", "prompt://payment-reminder",
                 "schema://tenant", "template://invoice", "data://building-info"}

MockMCPResourcesInterface == [resources |-> MCPResources]

M212_call(iface, uri, bytes) ==
    IF uri \notin iface.resources
    THEN InterfaceResult(FALSE, <<>>, <<"Resource not found: ", uri>>, 0)
    ELSE InterfaceResult(TRUE, [uri |-> uri, content |-> [uri |-> uri]],
                         NoText, bytes)

M212_process(w0, input_data) ==
    Let(IF ~w0.connected["M212"]
        THEN connect(w0, "M212", MockMCPResourcesInterface)
        ELSE w0, LAMBDA w :
    Let(Get(input_data, "action", "fetch"), LAMBDA action :
    Let(Get(input_data, "uri", ""), LAMBDA uri :
      IF action \in {"fetch", "render"} /\ uri = Unhashable
      THEN leaf_except(w, "M212", 30, <<"unhashable type: 'list'">>)
      ELSE IF action = "fetch"
      THEN Let(M212_call(w.interface["M212"], uri, w.bytes_transferred),
           LAMBDA result :
             leaf_return(w, "M212", 30 + result.bytes_transferred \div 20,
                         result))
      ELSE IF action = "render"
      THEN IF /\ uri \in {"prompt://tenant-report", "prompt://payment-reminder"}
              /\ ~IsMapping(Get(input_data, "variables", <<>>))
           THEN leaf_except(w, "M212", 30,
                            <<"'list' object has no attribute 'items'">>)
           ELSE Let(M212_call(w.interface["M212"], uri, w.bytes_transferred),
                LAMBDA result :
                  leaf_return(w, "M212",
                              30 + result.bytes_transferred \div 15, result))
      ELSE IF action = "list"
      THEN leaf_return(w, "M212",
                       30 + Cardinality(w.interface["M212"].resources) * 5,
                       InterfaceResult(TRUE,
                         [resources |-> w.interface["M212"].resources],
                         NoText, 0))
      ELSE IF action = "status"
      THEN leaf_return(w, "M212", 30 + 5,
                       InterfaceResult(TRUE,
                         [available |-> TRUE,
                          resources_count |->
                              Cardinality(w.interface["M212"].resources)],
                         NoText, 0))
      ELSE leaf_unknown(w, "M212", 30, action))))

\* ---- M221: HTTP ----

MockHTTPInterface ==
    [tenants |-> <<Row(1), Row(2)>>,
     payments |-> <<[id |-> 1, tenant_id |-> 1]>>]

\* the urls requests carry: those containing "/api/tenants" ...
UrlsOfTenants == {"/api/tenants", "/api/tenants/1", "/api/tenants/2",
                  "/api/tenants/9", "/api/tenants/abc"}

\* ... those containing "/api/tenants/", and "/api/payments"
UrlsOfOneTenant == UrlsOfTenants \ {"/api/tenants"}

UrlsOfPayments == {"/api/payments"}

\* int(url.split("/")[-1]) where it is a number
UrlTenantId(url) ==
    CASE url = "/api/tenants/1" -> 1
      [] url = "/api/tenants/2" -> 2
      [] url = "/api/tenants/9" -> 9

UrlIdFault(url) == url = "/api/tenants/abc"

IntFaultText == <<"invalid literal for int() with base 10: ", "'abc'">>

\* str.upper() on the methods requests carry
Upper(method) ==
    CASE method = "get" -> "GET"
      [] method = "post" -> "POST"
      [] method = "put" -> "PUT"
      [] method = "delete" -> "DELETE"
      [] OTHER -> method

RECURSIVE MaxId(_)
MaxId(rows) ==
    IF Len(rows) = 0 THEN 0
    ELSE Let(MaxId(Tail(rows)), LAMBDA m :
           IF Head(rows).id > m THEN Head(rows).id ELSE m)

\* each of get, post, put, delete: the interface after the call, and either
\* its InterfaceResult or the text of the fault it raised
HttpDone(iface, result) == [iface |-> iface, fault |-> NoText, result |-> result]

HttpFault(iface, text) ==
    [iface |-> iface, fault |-> text,
     result |-> InterfaceResult(FALSE, <<>>, text, 0)]

M221_get(iface, url, bytes) ==
    IF url \in UrlsOfTenants
    THEN IF url = "/api/tenants"
         THEN HttpDone(iface, InterfaceResult(TRUE, iface.tenants, NoText,
                                              ListBytes(iface.tenants, bytes)))
         ELSE IF UrlIdFault(url) THEN HttpFault(iface, IntFaultText)
         ELSE Let(SelectSeq(iface.tenants, LAMBDA t : t.id = UrlTenantId(url)),
              LAMBDA found :
                IF Len(found) > 0
                THEN HttpDone(iface, InterfaceResult(TRUE, found[1], NoText, 0))
                ELSE HttpDone(iface, InterfaceResult(FALSE, <<>>,
                                                     <<"Tenant not found">>, 0)))
    ELSE IF url \in UrlsOfPayments
    THEN HttpDone(iface, InterfaceResult(TRUE, iface.payments, NoText, 0))
    ELSE IF url = "/api/reports"
    THEN HttpDone(iface, InterfaceResult(TRUE, [reports |-> 3], NoText, 0))
    ELSE HttpDone(iface, InterfaceResult(FALSE, <<>>,
                                         <<"Endpoint not found">>, 0))

M221_post(iface, url, data, bytes) ==
    IF url \in UrlsOfTenants \cup UrlsOfPayments \cup {"/api/reports"}
       /\ ~IsMapping(data)
    THEN HttpFault(iface, <<"'list' object is not a mapping">>)
    ELSE IF url \in UrlsOfTenants
    THEN Let(data @@ [id |-> MaxId(iface.tenants) + 1], LAMBDA new_tenant :
           HttpDone([iface EXCEPT !.tenants = Append(@, new_tenant)],
                    InterfaceResult(TRUE, new_tenant, NoText, bytes)))
    ELSE IF url \in UrlsOfPayments
    THEN Let(data @@ [id |-> MaxId(iface.payments) + 1], LAMBDA new_payment :
           HttpDone([iface EXCEPT !.payments = Append(@, new_payment)],
                    InterfaceResult(TRUE, new_payment, NoText, 0)))
    ELSE IF url = "/api/reports"
    THEN HttpDone(iface, InterfaceResult(TRUE, [status |-> "accepted"],
                                         NoText, 0))
    ELSE HttpDone(iface, InterfaceResult(FALSE, <<>>,
                                         <<"Endpoint not found">>, 0))

M221_put(iface, url, data) ==
    IF url \in UrlsOfOneTenant
    THEN IF UrlIdFault(url) THEN HttpFault(iface, IntFaultText)
         ELSE IF \E i \in 1..Len(iface.tenants) :
                    iface.tenants[i].id = UrlTenantId(url)
         THEN IF ~IsMapping(data)
              THEN HttpFault(iface, <<"dictionary update sequence element #0 ",
                                      "has length 1; 2 is required">>)
              ELSE Let(CHOOSE i \in 1..Len(iface.tenants) :
                          /\ iface.tenants[i].id = UrlTenantId(url)
                          /\ \A j \in 1..(i - 1) :
                                iface.tenants[j].id # UrlTenantId(url),
                   LAMBDA i :
                     HttpDone([iface EXCEPT !.tenants[i] = data @@ @],
                              InterfaceResult(TRUE, data @@ iface.tenants[i],
                                              NoText, 0)))
         ELSE HttpDone(iface, InterfaceResult(FALSE, <<>>,
                                              <<"Tenant not found">>, 0))
    ELSE HttpDone(iface, InterfaceResult(FALSE, <<>>,
                                         <<"Endpoint not found">>, 0))

M221_delete(iface, url) ==
    IF url \in UrlsOfOneTenant
    THEN IF UrlIdFault(url) THEN HttpFault(iface, IntFaultText)
         ELSE HttpDone([iface EXCEPT !.tenants =
                           SelectSeq(@, LAMBDA t : t.id # UrlTenantId(url))],
                       InterfaceResult(TRUE, [deleted |-> UrlTenantId(url)],
                                       NoText, 0))
    ELSE HttpDone(iface, InterfaceResult(FALSE, <<>>,
                                         <<"Endpoint not found">>, 0))

\* the leaf dispatches on "method"; method.upper() runs before the try block
M221_process(w0, input_data) ==
    Let(IF ~w0.connected["M221"] THEN connect(w0, "M221", MockHTTPInterface)
        ELSE w0, LAMBDA w :
    IF Get(input_data, "method", "GET") = NotAString
    THEN Raised(w, <<"'NoneType' object has no attribute 'upper'">>)
    ELSE
    Let(Upper(Get(input_data, "method", "GET")), LAMBDA method :
    Let(Get(input_data, "url", ""), LAMBDA url :
    Let(Get(input_data, "data", <<>>), LAMBDA data :
    Let(w.interface["M221"], LAMBDA iface :
      IF method \notin {"GET", "POST", "PUT", "DELETE"}
      THEN Returned(w, NodeResult(FALSE, <<>>, <<"Unknown method: ", method>>,
                                  25, "M221"))
      ELSE Let(CASE method = "GET" -> M221_get(iface, url, w.bytes_transferred)
                 [] method = "POST" ->
                        M221_post(iface, url, data, w.bytes_transferred)
                 [] method = "PUT" -> M221_put(iface, url, data)
                 [] method = "DELETE" -> M221_delete(iface, url), LAMBDA r :
             IF r.fault # NoText
             THEN leaf_except(w, "M221", 25, r.fault)
             ELSE leaf_return([w EXCEPT !.interface["M221"] = r.iface], "M221",
                              25 + r.result.bytes_transferred \div 15,
                              r.result)))))))

\* ---- M222: PDF documents ----

MockPDFInterface == [documents |-> <<>>]

\* f"reports/{report_type}_{date}.pdf"
DefaultOutputPath(report_type) ==
    CASE report_type = "tenant_statement" -> "reports/tenant_statement_<date>.pdf"
      [] report_type = "payment_history" -> "reports/payment_history_<date>.pdf"
      [] report_type = "balance_summary" -> "reports/balance_summary_<date>.pdf"
      [] report_type = "general" -> "reports/general_<date>.pdf"
      [] OTHER -> "reports/<report_type>_<date>.pdf"

M222_read(iface, path) ==
    IF path \notin DOMAIN iface.documents
    THEN InterfaceResult(FALSE, <<>>, <<"PDF not found: ", path>>, 0)
    ELSE InterfaceResult(TRUE, [filename |-> path, size |-> iface.documents[path]],
                         NoText, iface.documents[path])

\* size_bytes = len(str(content)) * 2 is what the write reports
M222_write(iface, path, size_bytes) ==
    [iface |-> [iface EXCEPT !.documents = (path :> size_bytes) @@ @],
     result |-> InterfaceResult(TRUE,
                  [path |-> path, size |-> size_bytes, created |-> TRUE],
                  NoText, size_bytes)]

M222_process(w0, input_data) ==
    Let(IF ~w0.connected["M222"] THEN connect(w0, "M222", MockPDFInterface)
        ELSE w0, LAMBDA w :
    Let(Get(input_data, "action", "generate"), LAMBDA action :
      IF action = "generate"
      THEN Let(Get(input_data, "report_type", "general"), LAMBDA report_type :
           Let(Get(input_data, "data", <<>>), LAMBDA data :
           Let(Get(input_data, "output_path", DefaultOutputPath(report_type)),
           LAMBDA output_path :
             IF report_type = NotAString
             THEN leaf_except(w, "M222", 40,
                              <<"'NoneType' object has no attribute 'replace'">>)
             ELSE IF /\ report_type \in {"tenant_statement", "payment_history",
                                         "balance_summary"}
                     /\ ~IsMapping(data)
             THEN leaf_except(w, "M222", 40,
                              <<"'list' object has no attribute 'get'">>)
             ELSE IF /\ report_type = "tenant_statement"
                     /\ \E k \in {"rent", "balance"} :
                          k \in DOMAIN data /\ data[k] = NotANumber
             THEN leaf_except(w, "M222", 40,
                    <<"Unknown format code 'f' for object of type 'str'">>)
             ELSE IF output_path = Unhashable
             THEN leaf_except(w, "M222", 40, <<"unhashable type: 'list'">>)
             ELSE Let(M222_write(w.interface["M222"], output_path,
                                 w.bytes_transferred), LAMBDA r :
                    leaf_return([w EXCEPT !.interface["M222"] = r.iface],
                                "M222",
                                40 + r.result.bytes_transferred \div 10,
                                r.result)))))
      ELSE IF action = "read"
      THEN Let(Get(input_data, "path", ""), LAMBDA path :
           IF path = Unhashable
           THEN leaf_except(w, "M222", 40, <<"unhashable type: 'list'">>)
           ELSE Let(M222_read(w.interface["M222"], path), LAMBDA result :
                  leaf_return(w, "M222",
                              40 + (IF result.success
                                    THEN result.bytes_transferred \div 50
                                    ELSE 10),
                              result)))
      ELSE IF action = "list"
      THEN Let(DOMAIN w.interface["M222"].documents, LAMBDA documents :
             leaf_return(w, "M222", 40 + Cardinality(documents) * 2,
                         InterfaceResult(TRUE,
                           [documents |-> documents,
                            count |-> Cardinality(documents)], NoText, 0)))
      ELSE leaf_unknown(w, "M222", 40, action)))

(***************************************************************************)
(* Internal nodes: each handles a request by calling process on its        *)
(* children.  process(w, caller, id, input_data) is the call of node id's  *)
(* process by caller; it returns the world after the call and the Result,  *)
(* or the fault the call raised.                                           *)
(***************************************************************************)

RECURSIVE process(_, _, _, _)

\* len(str(e)) of an error text
RECURSIVE TextLen(_)
TextLen(text) ==
    IF Len(text) = 0 THEN 0 ELSE StrLen(Head(text)) + TextLen(Tail(text))

\* the request an internal node logs with; message is the length of the text
LogRequest(key, level, message) ==
    (key :> level) @@ [action |-> "log", message |-> message]

\* ---- M110: configuration and logging ----

M110_process(w, input_data) ==
    Let(Get(input_data, "action", "load_config"), LAMBDA action :
      IF action = "load_config"
      THEN Let(Get(input_data, "config_path", "config/settings.yaml"),
           LAMBDA config_path :
           Let(process(w, "M110", "M111",
                       [action |-> "read", path |-> config_path]), LAMBDA c :
           Let(process(c.w, "M110", "M112",
                       LogRequest("level", "INFO", 26 + StrLen(config_path))),
           LAMBDA l :
             Returned(l.w, NodeResult(c.result.success, c.result.data,
                                      c.result.error,
                                      5 + c.result.tokens_used + 5, "M110")))))
      ELSE IF action = "save_config"
      THEN Let(Get(input_data, "config_path", "config/settings.yaml"),
           LAMBDA config_path :
           Let(process(w, "M110", "M111",
                       [action |-> "write", path |-> config_path,
                        data |-> Get(input_data, "data", <<>>)]), LAMBDA c :
           Let(process(c.w, "M110", "M112",
                       LogRequest("level", "INFO", 23 + StrLen(config_path))),
           LAMBDA l :
             Returned(l.w, NodeResult(c.result.success, c.result.data, NoText,
                                      5 + c.result.tokens_used + 5, "M110")))))
      ELSE IF action = "log"
      THEN Let(process(w, "M110", "M112",
                       LogRequest("level", Get(input_data, "log_level", "INFO"),
                                  Get(input_data, "message", 0))), LAMBDA l :
             Returned(l.w, NodeResult(l.result.success, l.result.data, NoText,
                                      5 + l.result.tokens_used, "M110")))
      ELSE IF action = "init_system"
      THEN Let(process(w, "M110", "M111",
                       [action |-> "read",
                        path |-> Get(input_data, "config_path",
                                     "config/settings.yaml")]), LAMBDA c :
           Let(process(c.w, "M110", "M112", LogRequest("level", "INFO", 29)),
           LAMBDA l1 :
           Let(IF c.result.success
               THEN process(l1.w, "M110", "M112",
                            LogRequest("level", "INFO", 31))
               ELSE process(l1.w, "M110", "M112",
                            LogRequest("level", "ERROR",
                                       30 + TextLen(c.result.error))),
           LAMBDA l2 :
             Returned(l2.w, NodeResult(c.result.success,
                                       [config |-> c.result.data,
                                        initialized |-> c.result.success],
                                       NoText,
                                       5 + c.result.tokens_used + 15,
                                       "M110")))))
      ELSE Returned(w, NodeResult(FALSE, <<>>, <<"Unknown action: ", action>>,
                                  5, "M110")))

\* ---- M120: tenant data in the workbook and the database ----

\* t.get("id")
RowId(t) == IF "id" \in DOMAIN t THEN t.id ELSE NoId

RowIds(rows) == {RowId(rows[i]) : i \in 1..Len(rows)}

\* the loop of import_excel: one add_tenant call for each row
RECURSIVE import_rows(_, _)
import_rows(w, rows) ==
    IF Len(rows) = 0 THEN w
    ELSE Let(process(w, "M120", "M122",
                     [action |-> "add_tenant", data |-> Head(rows)]),
         LAMBDA r : import_rows(r.w, Tail(rows)))

M120_process(w, input_data) ==
    Let(Get(input_data, "action", "get_tenants"), LAMBDA action :
    Let(Get(input_data, "source", "database"), LAMBDA source :
      IF action = "get_tenants"
      THEN IF source \in {"excel", "database"}
           THEN Let(IF source = "excel"
                    THEN process(w, "M120", "M121",
                                 [action |-> "get_sheet", path |-> "tenants.xlsx"])
                    ELSE process(w, "M120", "M122", [action |-> "get_tenants"]),
                LAMBDA r :
                  Returned(r.w, NodeResult(r.result.success, r.result.data,
                                           r.result.error,
                                           10 + r.result.tokens_used, "M120")))
           ELSE Let(process(w, "M120", "M121",
                            [action |-> "get_sheet", path |-> "tenants.xlsx"]),
                LAMBDA e :
                Let(process(e.w, "M120", "M122", [action |-> "get_tenants"]),
                LAMBDA d :
                  Returned(d.w, NodeResult(
                    e.result.success \/ d.result.success,
                    [excel |-> IF e.result.success THEN e.result.data ELSE <<>>,
                     database |-> IF d.result.success THEN d.result.data
                                  ELSE <<>>],
                    NoText,
                    10 + e.result.tokens_used + d.result.tokens_used, "M120"))))
      ELSE IF action = "add_tenant"
      THEN Let(Get(input_data, "data", <<>>), LAMBDA tenant_data :
           Let(process(w, "M120", "M122",
                       [action |-> "add_tenant", data |-> tenant_data]),
           LAMBDA d :
           Let(IF Get(input_data, "sync_excel", TRUE)
               THEN process(d.w, "M120", "M121",
                            [action |-> "add_row", path |-> "tenants.xlsx",
                             data |-> tenant_data]).w
               ELSE d.w, LAMBDA w2 :
             Returned(w2, NodeResult(d.result.success, d.result.data, NoText,
                                     10 + d.result.tokens_used + 20, "M120")))))
      ELSE IF action = "import_excel"
      THEN Let(Get(input_data, "path", "tenants.xlsx"), LAMBDA excel_path :
           Let(process(w, "M120", "M121",
                       [action |-> "get_sheet", path |-> excel_path]),
           LAMBDA e :
             IF ~e.result.success
             THEN Returned(e.w, NodeResult(FALSE, <<>>,
                             <<"Failed to read Excel: ">> \o e.result.error,
                             10 + e.result.tokens_used, "M120"))
             ELSE Let(Len(e.result.data), LAMBDA imported :
                  Let(import_rows(e.w, e.result.data), LAMBDA w2 :
                    Returned(w2, NodeResult(TRUE,
                               [imported |-> imported, source |-> excel_path],
                               NoText,
                               10 + e.result.tokens_used + imported * 20,
                               "M120"))))))
      ELSE IF action = "export_excel"
      THEN Let(Get(input_data, "path", "export.xlsx"), LAMBDA output_path :
           Let(process(w, "M120", "M122", [action |-> "get_tenants"]),
           LAMBDA d :
             IF ~d.result.success
             THEN Returned(d.w, NodeResult(FALSE, <<>>,
                             <<"Failed to query database: ">> \o d.result.error,
                             10 + d.result.tokens_used, "M120"))
             ELSE Let(process(d.w, "M120", "M121",
                              [action |-> "write", path |-> output_path,
                               data |-> [Sheet1 |-> d.result.data]]),
                  LAMBDA e :
                    Returned(e.w, NodeResult(e.result.success,
                               [exported |-> Len(d.result.data),
                                path |-> output_path],
                               NoText,
                               10 + d.result.tokens_used + e.result.tokens_used,
                               "M120")))))
      ELSE IF action = "sync"
      THEN Let(process(w, "M120", "M121",
                       [action |-> "get_sheet", path |-> "tenants.xlsx"]),
           LAMBDA e :
           Let(process(e.w, "M120", "M122", [action |-> "get_tenants"]),
           LAMBDA d :
             IF \E i \in 1..Len(e.result.data) : ~IsMapping(e.result.data[i])
             THEN \* t.get("id") of a row that is no dict: the except branch
                  Returned(d.w, NodeResult(FALSE, <<>>,
                             <<"'list' object has no attribute 'get'">>,
                             10, "M120"))
             ELSE Let(RowIds(e.result.data), LAMBDA excel_ids :
                  Let(RowIds(d.result.data), LAMBDA db_ids :
                    Returned(d.w, NodeResult(TRUE,
                               [excel_count |-> Cardinality(excel_ids),
                                database_count |-> Cardinality(db_ids),
                                in_sync |-> excel_ids = db_ids,
                                only_in_excel |-> excel_ids \ db_ids,
                                only_in_db |-> db_ids \ excel_ids],
                               NoText,
                               10 + e.result.tokens_used + d.result.tokens_used,
                               "M120"))))))
      ELSE IF action = "query"
      THEN Let(process(w, "M120", "M122",
                       [action |-> "query", sql |-> Get(input_data, "sql", ""),
                        params |-> Get(input_data, "params", <<>>)]),
           LAMBDA r :
             Returned(r.w, NodeResult(r.result.success, r.result.data,
                                      r.result.error,
                                      10 + r.result.tokens_used, "M120")))
      ELSE Returned(w, NodeResult(FALSE, <<>>, <<"Unknown action: ", action>>,
                                  10, "M120"))))
\* ---- M100: infrastructure ----

\* an error text inside an f-string: None prints as "None"
Str(error) == IF error = NoText THEN <<"None">> ELSE error

\* len(str(ids)) of a list of single-digit ids
IdListLen(ids) == IF ids = {} THEN 2 ELSE 3 * Cardinality(ids)

\* len(str(data)) of the Result of a sync, its counts being single digits
SyncDataLen(r) ==
    IF ~r.success THEN 4
    ELSE 87 + (IF r.data.in_sync THEN 4 ELSE 5)
         + IdListLen(r.data.only_in_excel) + IdListLen(r.data.only_in_db)

M100_process(w, input_data) ==
    Let(Get(input_data, "action", "system_status"), LAMBDA action :
      IF action = "initialize"
      THEN Let(process(w, "M100", "M110",
                       [action |-> "init_system",
                        config_path |-> Get(input_data, "config_path",
                                            "config/settings.yaml")]),
           LAMBDA c :
             IF ~c.result.success
             THEN Returned(c.w, NodeResult(FALSE, <<>>,
                             <<"Configuration initialization failed: ">>
                                 \o Str(c.result.error),
                             20 + c.result.tokens_used, "M100"))
             ELSE Let(process(c.w, "M100", "M120",
                              [action |-> "get_tenants", source |-> "database"]),
                  LAMBDA d :
                  Let(process(d.w, "M100", "M110",
                              LogRequest("log_level", "INFO",
                                         IF d.result.success THEN 43 ELSE 44)),
                  LAMBDA l :
                    Returned([l.w EXCEPT !.system_initialized = d.result.success],
                             NodeResult(d.result.success,
                               [config |-> c.result.data,
                                database_connected |-> d.result.success,
                                tenant_count |-> IF d.result.success
                                                 THEN Len(d.result.data) ELSE 0],
                               NoText,
                               20 + c.result.tokens_used + d.result.tokens_used,
                               "M100")))))
      ELSE IF action = "get_tenant_data"
      THEN Let(Get(input_data, "tenant_id", NoId), LAMBDA tenant_id :
           Let(IF tenant_id # NoId
               THEN process(w, "M100", "M120",
                            [action |-> "query",
                             sql |-> "SELECT * FROM tenants WHERE id = :id",
                             params |-> [id |-> tenant_id]])
               ELSE process(w, "M100", "M120",
                            [action |-> "get_tenants",
                             source |-> Get(input_data, "source", "database")]),
           LAMBDA d :
           Let(IF d.result.success THEN d.result.data ELSE <<>>,
           LAMBDA tenants :
             IF Get(input_data, "include_config", FALSE)
             THEN Let(process(d.w, "M100", "M110", [action |-> "load_config"]),
                  LAMBDA c :
                    Returned(c.w, NodeResult(d.result.success,
                               [tenants |-> tenants,
                                config |-> IF c.result.success
                                           THEN c.result.data ELSE <<>>],
                               NoText,
                               20 + d.result.tokens_used + c.result.tokens_used,
                               "M100")))
             ELSE Returned(d.w, NodeResult(d.result.success,
                             [tenants |-> tenants], NoText,
                             20 + d.result.tokens_used, "M100")))))
      ELSE IF action = "save_tenant"
      THEN Let(Get(input_data, "data", <<>>), LAMBDA tenant_data :
           Let(process(w, "M100", "M120",
                       [action |-> "add_tenant", data |-> tenant_data,
                        sync_excel |-> Get(input_data, "sync_excel", TRUE)]),
           LAMBDA d :
             IF ~IsMapping(tenant_data)
             THEN \* tenant_data.get('name', ...) faults: the except branch
                  Let(process(d.w, "M100", "M110",
                              LogRequest("log_level", "ERROR", 22 + 36)),
                  LAMBDA l :
                    Returned(l.w, NodeResult(FALSE, <<>>,
                               <<"'list' object has no attribute 'get'">>,
                               20, "M100")))
             ELSE Let(process(d.w, "M100", "M110",
                        LogRequest("log_level",
                          IF d.result.success THEN "INFO" ELSE "ERROR",
                          (IF d.result.success THEN 23 ELSE 20)
                          + StrLen(Get(tenant_data, "name", "Unknown")))),
                  LAMBDA l :
                    Returned(l.w, NodeResult(d.result.success, d.result.data,
                               d.result.error,
                               20 + d.result.tokens_used + 10, "M100")))))
      ELSE IF action = "config_update"
      THEN Let(process(w, "M100", "M110",
                       [action |-> "save_config",
                        config_path |-> Get(input_data, "config_path",
                                            "config/settings.yaml"),
                        data |-> Get(input_data, "data", <<>>)]), LAMBDA c :
             Returned(c.w, NodeResult(c.result.success, c.result.data,
                                      c.result.error,
                                      20 + c.result.tokens_used, "M100")))
      ELSE IF action = "system_status"
      THEN Returned(w, NodeResult(TRUE,
                         [initialized |-> w.system_initialized], NoText,
                         20, "M100"))
      ELSE IF action = "sync_data"
      THEN Let(process(w, "M100", "M120", [action |-> "sync"]), LAMBDA s :
           Let(process(s.w, "M100", "M110",
                       LogRequest("log_level", "INFO",
                                  21 + SyncDataLen(s.result))), LAMBDA l :
             Returned(l.w, NodeResult(s.result.success, s.result.data, NoText,
                                      20 + s.result.tokens_used + 5, "M100"))))
      ELSE Returned(w, NodeResult(FALSE, <<>>, <<"Unknown action: ", action>>,
                                  20, "M100")))

\* ---- M210: MCP server ----

M210_process(w, input_data) ==
    Let(Get(input_data, "action", "list_capabilities"), LAMBDA action :
      IF action = "call_tool"
      THEN Let(process(w, "M210", "M211",
                       [action |-> "call", tool |-> Get(input_data, "tool", ""),
                        params |-> Get(input_data, "params", <<>>)]),
           LAMBDA r :
             Returned(r.w, NodeResult(r.result.success, r.result.data,
                                      r.result.error,
                                      15 + r.result.tokens_used, "M210")))
      ELSE IF action = "get_resource"
      THEN Let(Get(input_data, "variables", <<>>), LAMBDA variables :
           Let(process(w, "M210", "M212",
                       [action |-> IF variables # <<>> THEN "render"
                                   ELSE "fetch",
                        uri |-> Get(input_data, "resource", ""),
                        variables |-> variables]), LAMBDA r :
             Returned(r.w, NodeResult(r.result.success, r.result.data,
                                      r.result.error,
                                      15 + r.result.tokens_used, "M210"))))
      ELSE IF action = "execute_with_prompt"
      THEN Let(Get(input_data, "params", <<>>), LAMBDA tool_params :
           Let(process(w, "M210", "M212",
                       [action |-> "render",
                        uri |-> Get(input_data, "resource", ""),
                        variables |-> Get(input_data, "variables", <<>>)]),
           LAMBDA p :
             IF ~p.result.success
             THEN Returned(p.w, NodeResult(FALSE, <<>>,
                             <<"Failed to get prompt: ">> \o Str(p.result.error),
                             15 + p.result.tokens_used, "M210"))
             ELSE IF ~IsMapping(tool_params)
             THEN \* {**tool_params, ...} faults: the except branch
                  Returned(p.w, NodeResult(FALSE, <<>>,
                             <<"'list' object is not a mapping">>, 15, "M210"))
             ELSE Let(process(p.w, "M210", "M211",
                        [action |-> "call",
                         tool |-> Get(input_data, "tool", ""),
                         params |-> [prompt_context |->
                                       Get(p.result.data, "content", <<>>)]
                                    @@ tool_params]),
                  LAMBDA t :
                    Returned(t.w, NodeResult(t.result.success,
                               [prompt |-> p.result.data,
                                tool_result |-> t.result.data],
                               t.result.error,
                               15 + p.result.tokens_used + t.result.tokens_used,
                               "M210")))))
      ELSE IF action = "list_capabilities"
      THEN Let(process(w, "M210", "M211", [action |-> "list"]), LAMBDA t :
           Let(process(t.w, "M210", "M212", [action |-> "list"]), LAMBDA r :
             Returned(r.w, NodeResult(t.result.success /\ r.result.success,
                        [tools |-> IF t.result.success THEN t.result.data
                                   ELSE <<>>,
                         resources |-> IF r.result.success THEN r.result.data
                                       ELSE <<>>],
                        NoText,
                        15 + t.result.tokens_used + r.result.tokens_used,
                        "M210"))))
      ELSE IF action = "status"
      THEN Let(process(w, "M210", "M211", [action |-> "status"]), LAMBDA t :
           Let(process(t.w, "M210", "M212", [action |-> "status"]), LAMBDA r :
             Returned(r.w, NodeResult(TRUE,
                        [tools_status |-> t.result.data,
                         resources_status |-> r.result.data,
                         server_healthy |->
                             t.result.success /\ r.result.success],
                        NoText,
                        15 + t.result.tokens_used + r.result.tokens_used,
                        "M210"))))
      ELSE Returned(w, NodeResult(FALSE, <<>>, <<"Unknown action: ", action>>,
                                  15, "M210")))
\* ---- M220: output ----

\* isinstance(data, list) of the data of a successful GET of url
M221_get_returns_list(url) == url = "/api/tenants" \/ url \in UrlsOfPayments

M220_process(w, input_data) ==
    Let(Get(input_data, "action", "api_request"), LAMBDA action :
      IF action = "api_request"
      THEN Let(process(w, "M220", "M221",
                       [method |-> Get(input_data, "method", "GET"),
                        url |-> Get(input_data, "url", ""),
                        data |-> Get(input_data, "data", <<>>),
                        headers |-> Get(input_data, "headers", <<>>)]),
           LAMBDA r :
             IF r.raised
             THEN Returned(r.w, NodeResult(FALSE, <<>>, r.result.error,
                                           10, "M220"))
             ELSE Returned(r.w, NodeResult(r.result.success, r.result.data,
                                           r.result.error,
                                           10 + r.result.tokens_used, "M220")))
      ELSE IF action = "generate_pdf"
      THEN Let(process(w, "M220", "M222",
                       [action |-> "generate",
                        report_type |-> Get(input_data, "report_type", "general"),
                        data |-> Get(input_data, "data", <<>>),
                        output_path |-> Get(input_data, "output_path", None)]),
           LAMBDA r :
             Returned(r.w, NodeResult(r.result.success, r.result.data,
                                      r.result.error,
                                      10 + r.result.tokens_used, "M220")))
      ELSE IF action = "fetch_and_report"
      THEN Let(Get(input_data, "url", "/api/tenants"), LAMBDA api_url :
           Let(Get(input_data, "report_type", "balance_summary"),
           LAMBDA report_type :
           Let(process(w, "M220", "M221", [method |-> "GET", url |-> api_url]),
           LAMBDA a :
             IF ~a.result.success
             THEN Returned(a.w, NodeResult(FALSE, <<>>,
                             <<"API fetch failed: ">> \o Str(a.result.error),
                             10 + a.result.tokens_used, "M220"))
             ELSE Let(IF report_type = "balance_summary"
                      THEN [tenants |-> IF M221_get_returns_list(api_url)
                                        THEN a.result.data ELSE <<>>]
                      ELSE IF report_type = "payment_history"
                      THEN [payments |-> IF M221_get_returns_list(api_url)
                                         THEN a.result.data ELSE <<>>]
                      ELSE IF M221_get_returns_list(api_url) THEN NotAMapping
                      ELSE a.result.data, LAMBDA pdf_data :
                  Let(process(a.w, "M220", "M222",
                              [action |-> "generate",
                               report_type |-> report_type,
                               data |-> pdf_data]), LAMBDA p :
                    Returned(p.w, NodeResult(p.result.success,
                               [api_data |-> a.result.data,
                                pdf_info |-> p.result.data],
                               p.result.error,
                               10 + a.result.tokens_used + p.result.tokens_used,
                               "M220")))))))
      ELSE IF action = "multi_output"
      THEN Let(Get(input_data, "report_type", "tenant_statement"),
           LAMBDA report_type :
           Let(process(w, "M220", "M221",
                       [method |-> "POST", url |-> "/api/reports",
                        data |-> [type |-> report_type,
                                  status |-> "generating"]]), LAMBDA a :
           Let(process(a.w, "M220", "M222",
                       [action |-> "generate", report_type |-> report_type,
                        data |-> Get(input_data, "data", <<>>)]), LAMBDA p :
             Returned(p.w, NodeResult(a.result.success /\ p.result.success,
                        [api_notification |-> a.result.data,
                         pdf_generated |-> p.result.data],
                        NoText,
                        10 + a.result.tokens_used + p.result.tokens_used,
                        "M220")))))
      ELSE IF action = "list_outputs"
      THEN Let(process(w, "M220", "M222", [action |-> "list"]), LAMBDA p :
             Returned(p.w, NodeResult(TRUE,
                        [pdf_documents |-> IF p.result.success
                                           THEN p.result.data ELSE <<>>],
                        NoText, 10 + p.result.tokens_used, "M220")))
      ELSE Returned(w, NodeResult(FALSE, <<>>, <<"Unknown action: ", action>>,
                                  10, "M220")))

\* ---- M200: application ----

\* f"/api/tenants/{tenant_id}" for the tenant ids requests carry
TenantUrl(tenant_id) ==
    CASE tenant_id = 1 -> "/api/tenants/1"
      [] tenant_id = 2 -> "/api/tenants/2"
      [] OTHER -> "/api/tenants/9"

M200_process(w, input_data) ==
    Let(Get(input_data, "action", "status"), LAMBDA action :
      IF action = "process_request"
      THEN Let(Get(input_data, "request_type", "api"), LAMBDA request_type :
             IF request_type \notin {"api", "tool", "report"}
             THEN Returned(w, NodeResult(FALSE, <<>>,
                             <<"Unknown request type: ", request_type>>,
                             25, "M200"))
             ELSE Let(CASE request_type = "api" ->
                             process(w, "M200", "M220",
                               [action |-> "api_request",
                                method |-> Get(input_data, "method", "GET"),
                                url |-> Get(input_data, "url", ""),
                                data |-> Get(input_data, "data", <<>>)])
                        [] request_type = "tool" ->
                             process(w, "M200", "M210",
                               [action |-> "call_tool",
                                tool |-> Get(input_data, "tool", ""),
                                params |-> Get(input_data, "params", <<>>)])
                        [] request_type = "report" ->
                             process(w, "M200", "M220",
                               [action |-> "generate_pdf",
                                report_type |-> Get(input_data, "report_type",
                                                    "general"),
                                data |-> Get(input_data, "data", <<>>)]),
                  LAMBDA r :
                    Returned(r.w, NodeResult(r.result.success, r.result.data,
                               r.result.error, 25 + r.result.tokens_used,
                               "M200"))))
      ELSE IF action = "generate_report"
      THEN Let(Get(input_data, "report_type", "tenant_statement"),
           LAMBDA report_type :
           Let(Get(input_data, "data", <<>>), LAMBDA tenant_data :
           Let(Get(input_data, "analyze", FALSE), LAMBDA analyze :
           Let(IF analyze
               THEN process(w, "M200", "M210",
                      [action |-> "call_tool",
                       tool |-> IF report_type = "payment_history"
                                THEN "analyze_payments"
                                ELSE "calculate_balance",
                       params |-> tenant_data])
               ELSE Returned(w, NodeResult(FALSE, <<>>, NoText, 0, None)),
           LAMBDA t :
             IF analyze /\ t.result.success /\ ~IsMapping(tenant_data)
             THEN \* tenant_data["analysis"] = ... faults: the except branch
                  Returned(t.w, NodeResult(FALSE, <<>>,
                             <<"list indices must be integers or slices, ",
                               "not str">>, 25, "M200"))
             ELSE Let(process(t.w, "M200", "M220",
                        [action |-> "generate_pdf",
                         report_type |-> report_type,
                         data |-> IF analyze /\ t.result.success
                                  THEN [analysis |-> t.result.data]
                                       @@ tenant_data
                                  ELSE tenant_data]), LAMBDA p :
                    Returned(p.w, NodeResult(p.result.success,
                               [report |-> p.result.data,
                                analysis_included |-> analyze],
                               p.result.error,
                               25 + t.result.tokens_used + p.result.tokens_used,
                               "M200")))))))
      ELSE IF action = "execute_tool"
      THEN Let(Get(input_data, "use_prompt", None), LAMBDA use_prompt :
           Let(IF use_prompt # None
               THEN process(w, "M200", "M210",
                      [action |-> "execute_with_prompt",
                       tool |-> Get(input_data, "tool", ""),
                       params |-> Get(input_data, "params", <<>>),
                       resource |-> use_prompt,
                       variables |-> Get(input_data, "prompt_variables", <<>>)])
               ELSE process(w, "M200", "M210",
                      [action |-> "call_tool",
                       tool |-> Get(input_data, "tool", ""),
                       params |-> Get(input_data, "params", <<>>)]),
           LAMBDA r :
             Returned(r.w, NodeResult(r.result.success, r.result.data,
                                      r.result.error,
                                      25 + r.result.tokens_used, "M200"))))
      ELSE IF action = "full_pipeline"
      THEN Let(Get(input_data, "tenant_id", 1), LAMBDA tenant_id :
           Let(process(w, "M200", "M220",
                       [action |-> "api_request", method |-> "GET",
                        url |-> TenantUrl(tenant_id)]), LAMBDA a :
             IF ~a.result.success
             THEN Returned(a.w, NodeResult(FALSE, <<>>,
                             <<"API fetch failed: ">> \o Str(a.result.error),
                             25 + a.result.tokens_used, "M200"))
             ELSE Let(process(a.w, "M200", "M210",
                        [action |-> "call_tool", tool |-> "get_tenant_info",
                         params |-> [tenant_id |-> tenant_id]]), LAMBDA t :
                  Let(IF t.result.success
                      THEN Get(t.result.data, "output", <<>>) @@ a.result.data
                      ELSE a.result.data, LAMBDA tenant_data :
                  Let(process(t.w, "M200", "M220",
                        [action |-> "generate_pdf",
                         report_type |-> Get(input_data, "report_type",
                                             "tenant_statement"),
                         data |-> tenant_data]), LAMBDA p :
                    Returned(p.w, NodeResult(p.result.success,
                               [tenant_data |-> tenant_data,
                                tool_analysis |-> IF t.result.success
                                                  THEN t.result.data ELSE <<>>,
                                pdf_report |-> IF p.result.success
                                               THEN p.result.data ELSE <<>>],
                               NoText,
                               25 + a.result.tokens_used + t.result.tokens_used
                                  + p.result.tokens_used,
                               "M200")))))))
      ELSE IF action = "capabilities"
      THEN Let(process(w, "M200", "M210", [action |-> "list_capabilities"]),
           LAMBDA s :
           Let(process(s.w, "M200", "M220", [action |-> "list_outputs"]),
           LAMBDA o :
             Returned(o.w, NodeResult(TRUE,
                        [server |-> IF s.result.success THEN s.result.data
                                    ELSE <<>>,
                         outputs |-> IF o.result.success THEN o.result.data
                                     ELSE <<>>],
                        NoText,
                        25 + s.result.tokens_used + o.result.tokens_used,
                        "M200"))))
      ELSE IF action = "status"
      THEN Let(process(w, "M200", "M210", [action |-> "status"]), LAMBDA s :
             Returned(s.w, NodeResult(TRUE,
                        [application_running |-> TRUE,
                         server_handler |-> IF s.result.success
                                            THEN s.result.data ELSE <<>>],
                        NoText, 25 + s.result.tokens_used, "M200")))
      ELSE Returned(w, NodeResult(FALSE, <<>>, <<"Unknown action: ", action>>,
                                  25, "M200")))
\* ---- InternalNode: the merge of two child Results ----

\* variant: the merge fails as soon as one child has failed
aggregate_results_strict(node_id, left_result, right_result) ==
    IF ~left_result.success \/ ~right_result.success
    THEN NodeResult(FALSE, <<>>,
                    <<"Both children failed: ">> \o Str(left_result.error)
                        \o <<", ">> \o Str(right_result.error),
                    left_result.tokens_used + right_result.tokens_used,
                    node_id)
    ELSE NodeResult(TRUE,
                    [left |-> left_result.data, right |-> right_result.data],
                    NoText,
                    left_result.tokens_used + right_result.tokens_used,
                    node_id)

aggregate_results(node_id, left_result, right_result) ==
    IF ~left_result.success /\ ~right_result.success
    THEN NodeResult(FALSE, <<>>,
                    <<"Both children failed: ">> \o Str(left_result.error)
                        \o <<", ">> \o Str(right_result.error),
                    left_result.tokens_used + right_result.tokens_used,
                    node_id)
    ELSE NodeResult(TRUE,
                    [left |-> left_result.data, right |-> right_result.data],
                    NoText,
                    left_result.tokens_used + right_result.tokens_used,
                    node_id)

\* ---- M000: the root ----

\* the target ids that start with "M1", and those that start with "M2": the
\* nodes of the two subtrees, and an id that names no node
IdsOfM1 == {"M100", "M110", "M111", "M112", "M120", "M121", "M122", "M199"}

IdsOfM2 == {"M200", "M210", "M211", "M212", "M220", "M221", "M222", "M299"}

\* None or "" where a path is expected; a path is the sequence of its
\* dot-separated parts
NoPath == <<>>

\* the loop of _get_node_by_path, current being the node reached so far
RECURSIVE walk_path(_, _)
walk_path(current, parts) ==
    IF Len(parts) = 0 THEN current
    ELSE IF Head(parts) = "M000" THEN walk_path(current, Tail(parts))
    ELSE IF current \in Internal /\ left_child_id[current] = Head(parts)
    THEN walk_path(left_child_id[current], Tail(parts))
    ELSE IF current \in Internal /\ right_child_id[current] = Head(parts)
    THEN walk_path(right_child_id[current], Tail(parts))
    ELSE None

get_node_by_path(path) == walk_path("M000", path)

\* variant: the budget is distributed below the left child only
distribute_tokens_left(w) == balance_tokens(w, "M100")

distribute_tokens(w) == balance_tokens(w, "M000")

get_utilization_report(w) ==
    [id \in DOMAIN w.leaf_allocations |->
        [allocated |-> w.leaf_allocations[id].allocated,
         consumed |-> w.leaf_allocations[id].consumed,
         remaining |-> w.leaf_allocations[id].allocated
                       - w.leaf_allocations[id].consumed]]

\* f"WF-{n:04d}": the prefix and the decimal digits, at least four of them
RECURSIVE Digits(_)
Digits(n) == IF n < 10 THEN <<n>> ELSE Append(Digits(n \div 10), n % 10)

RECURSIVE ZeroPad(_, _)
ZeroPad(digits, width) ==
    IF Len(digits) >= width THEN digits ELSE ZeroPad(<<0>> \o digits, width)

\* variant: the id is numbered from the length of the history, without the
\* entry that is about to be added
WorkflowId_from_zero(n) ==
    [prefix |-> "WF-", digits |-> ZeroPad(Digits(n - 1), 4)]

WorkflowId(n) == [prefix |-> "WF-", digits |-> ZeroPad(Digits(n), 4)]

\* what the try block of the root's process yields: a Result, or the text of
\* the fault that its except branch turns into a failed Result
RootFault(w, text) ==
    Returned(w, NodeResult(FALSE, <<>>, text, 30, "M000"))

\* variant: the run reports the success of its tool step
execute_tenant_report_workflow_by_tool(w, data) ==
    Let(WorkflowId(Len(w.workflow_history) + 1), LAMBDA workflow_id :
    Let(process(w, "M000", "M100",
                [action |-> "get_tenant_data", include_config |-> TRUE]),
    LAMBDA c :
      IF ~IsMapping(data)
      THEN IF c.result.success
           THEN RootFault(c.w, <<"'list' object is not a mapping">>)
           ELSE RootFault(c.w, <<"'list' object has no attribute 'get'">>)
      ELSE IF c.result.success /\ Len(c.result.data.tenants) = 0
      THEN RootFault(c.w, <<"list index out of range">>)
      ELSE
      Let(IF c.result.success THEN c.result.data.tenants[1] @@ data ELSE data,
      LAMBDA tenant_data :
      Let(process(c.w, "M000", "M200",
                  [action |-> "execute_tool", tool |-> "get_tenant_info",
                   params |-> [tenant_id |-> Get(tenant_data, "id", 1)]]),
      LAMBDA t :
      Let(process(t.w, "M000", "M200",
                  [action |-> "generate_report",
                   report_type |-> "tenant_statement",
                   data |-> IF t.result.success
                            THEN [processed |-> t.result.data] @@ tenant_data
                            ELSE tenant_data]), LAMBDA r :
      Let(50 + c.result.tokens_used + t.result.tokens_used
             + r.result.tokens_used, LAMBDA tokens_used :
        Returned([r.w EXCEPT !.workflow_history =
                     Append(@, [id |-> workflow_id, type |-> "tenant_report",
                                success |-> t.result.success,
                                tokens_used |-> tokens_used])],
                 NodeResult(t.result.success,
                            [workflow_id |-> workflow_id, steps_completed |-> 4],
                            NoText, tokens_used, "M000"))))))))

execute_tenant_report_workflow(w, data) ==
    Let(WorkflowId(Len(w.workflow_history) + 1), LAMBDA workflow_id :
    Let(process(w, "M000", "M100",
                [action |-> "get_tenant_data", include_config |-> TRUE]),
    LAMBDA c :
      IF ~IsMapping(data)
      THEN IF c.result.success
           THEN RootFault(c.w, <<"'list' object is not a mapping">>)
           ELSE RootFault(c.w, <<"'list' object has no attribute 'get'">>)
      ELSE IF c.result.success /\ Len(c.result.data.tenants) = 0
      THEN RootFault(c.w, <<"list index out of range">>)
      ELSE
      Let(IF c.result.success THEN c.result.data.tenants[1] @@ data ELSE data,
      LAMBDA tenant_data :
      Let(process(c.w, "M000", "M200",
                  [action |-> "execute_tool", tool |-> "get_tenant_info",
                   params |-> [tenant_id |-> Get(tenant_data, "id", 1)]]),
      LAMBDA t :
      Let(process(t.w, "M000", "M200",
                  [action |-> "generate_report",
                   report_type |-> "tenant_statement",
                   data |-> IF t.result.success
                            THEN [processed |-> t.result.data] @@ tenant_data
                            ELSE tenant_data]), LAMBDA r :
      Let(50 + c.result.tokens_used + t.result.tokens_used
             + r.result.tokens_used, LAMBDA tokens_used :
        Returned([r.w EXCEPT !.workflow_history =
                     Append(@, [id |-> workflow_id, type |-> "tenant_report",
                                success |-> r.result.success,
                                tokens_used |-> tokens_used])],
                 NodeResult(r.result.success,
                            [workflow_id |-> workflow_id, steps_completed |-> 4],
                            NoText, tokens_used, "M000"))))))))

execute_data_sync_workflow(w) ==
    Let(process(w, "M000", "M100", [action |-> "sync_data"]), LAMBDA s :
      Returned(s.w, NodeResult(s.result.success, s.result.data, NoText,
                               30 + s.result.tokens_used, "M000")))

execute_full_pipeline(w, data) ==
    Let(process(w, "M000", "M100",
                [action |-> "get_tenant_data", include_config |-> TRUE]),
    LAMBDA c :
      IF ~IsMapping(data)
      THEN RootFault(c.w, <<"'list' object has no attribute 'get'">>)
      ELSE
      Let(process(c.w, "M000", "M200",
                  [action |-> "execute_tool", tool |-> "analyze_payments",
                   params |-> [tenant_id |-> Get(data, "tenant_id", 1),
                               period |-> "monthly"]]), LAMBDA p :
      Let(process(p.w, "M000", "M200",
                  [action |-> "generate_report",
                   report_type |-> "payment_history",
                   data |-> [payments |-> <<[amount |-> 1500]>>]]), LAMBDA r :
        Returned(r.w, NodeResult(
                   c.result.success /\ p.result.success /\ r.result.success,
                   [pipeline_steps |-> <<c.result.success, p.result.success,
                                         r.result.success>>],
                   NoText,
                   100 + c.result.tokens_used + p.result.tokens_used
                       + r.result.tokens_used,
                   "M000")))))

M000_process(w, input_data) ==
    Let(Get(input_data, "action", "status"), LAMBDA action :
      IF action = "initialize"
      THEN Let(process(w, "M000", "M100",
                       [action |-> "initialize",
                        config_path |-> Get(input_data, "config_path",
                                            "config/settings.yaml")]),
           LAMBDA i :
             IF ~i.result.success
             THEN Returned(i.w, NodeResult(FALSE, <<>>,
                             <<"Infrastructure initialization failed: ">>
                                 \o Str(i.result.error),
                             30 + i.result.tokens_used, "M000"))
             ELSE Let(process(i.w, "M000", "M200", [action |-> "status"]),
                  LAMBDA a :
                  Let(distribute_tokens(a.w), LAMBDA b :
                    Returned(b.w, NodeResult(TRUE,
                               [infrastructure |-> i.result.data,
                                application |-> a.result.data,
                                token_allocations |-> b.ret,
                                system_ready |-> TRUE],
                               NoText,
                               30 + i.result.tokens_used + a.result.tokens_used,
                               "M000")))))
      ELSE IF action = "full_workflow"
      THEN Let(Get(input_data, "workflow_type", "tenant_report"),
           LAMBDA workflow_type :
           Let(Get(input_data, "data", <<>>), LAMBDA workflow_data :
             IF workflow_type = "tenant_report"
             THEN execute_tenant_report_workflow(w, workflow_data)
             ELSE IF workflow_type = "data_sync"
             THEN execute_data_sync_workflow(w)
             ELSE IF workflow_type = "full_pipeline"
             THEN execute_full_pipeline(w, workflow_data)
             ELSE Returned(w, NodeResult(FALSE, <<>>,
                             <<"Unknown workflow type: ", workflow_type>>,
                             30, "M000"))))
      ELSE IF action = "route_request"
      THEN Let(Get(input_data, "target", "M100"), LAMBDA target :
             IF target = NotAString
             THEN RootFault(w, <<"'NoneType' object has no attribute ",
                                 "'startswith'">>)
             ELSE IF target \notin IdsOfM1 \cup IdsOfM2
             THEN Returned(w, NodeResult(FALSE, <<>>,
                             <<"Unknown target: ", target>>, 30, "M000"))
             ELSE Let(process(w, "M000",
                              IF target \in IdsOfM1 THEN "M100" ELSE "M200",
                              Get(input_data, "request", <<>>)), LAMBDA r :
                    Returned(r.w, NodeResult(r.result.success, r.result.data,
                               r.result.error, 30 + r.result.tokens_used,
                               "M000"))))
      ELSE IF action = "rebalance"
      THEN Let(Get(input_data, "type", "full"), LAMBDA rebalance_type :
           Let(Get(input_data, "target", NoPath), LAMBDA target :
           Let(IF rebalance_type = "full" THEN rebalance_full(w, "M000")
               ELSE rebalance_partial(w, IF target # NoPath
                                         THEN get_node_by_path(target)
                                         ELSE "M000"), LAMBDA b :
             Returned(b.w, NodeResult(TRUE,
                        [rebalance_type |-> rebalance_type,
                         allocations |-> b.ret,
                         utilization |-> get_utilization_report(b.w)],
                        NoText, 30, "M000")))))
      ELSE IF action = "status"
      THEN Let(process(w, "M000", "M100", [action |-> "system_status"]),
           LAMBDA i :
           Let(process(i.w, "M000", "M200", [action |-> "status"]), LAMBDA a :
             Returned(a.w, NodeResult(TRUE,
                        [infrastructure |-> IF i.result.success
                                            THEN i.result.data ELSE <<>>,
                         application |-> IF a.result.success
                                         THEN a.result.data ELSE <<>>,
                         token_utilization |-> get_utilization_report(a.w),
                         workflow_count |-> Len(a.w.workflow_history)],
                        NoText,
                        30 + i.result.tokens_used + a.result.tokens_used,
                        "M000"))))
      ELSE IF action = "get_capabilities"
      THEN Let(process(w, "M000", "M200", [action |-> "capabilities"]),
           LAMBDA a :
             Returned(a.w, NodeResult(TRUE,
                        [application_actions |-> IF a.result.success
                                                 THEN a.result.data ELSE <<>>],
                        NoText, 30 + a.result.tokens_used, "M000")))
      ELSE Returned(w, NodeResult(FALSE, <<>>, <<"Unknown action: ", action>>,
                                  30, "M000")))

\* ---- the call of a node's process ----

\* what the log of calls keeps of one call, appended when it returns
CallRecord(caller, id, input_data, r) ==
    [caller |-> caller, node |-> id, request |-> input_data,
     raised |-> r.raised, success |-> r.result.success,
     tokens_used |-> r.result.tokens_used]

process(w, caller, id, input_data) ==
    Let(CASE id = "M000" -> M000_process(w, input_data)
          [] id = "M100" -> M100_process(w, input_data)
          [] id = "M110" -> M110_process(w, input_data)
          [] id = "M111" -> M111_process(w, input_data)
          [] id = "M112" -> M112_process(w, input_data)
          [] id = "M120" -> M120_process(w, input_data)
          [] id = "M121" -> M121_process(w, input_data)
          [] id = "M122" -> M122_process(w, input_data)
          [] id = "M200" -> M200_process(w, input_data)
          [] id = "M210" -> M210_process(w, input_data)
          [] id = "M211" -> M211_process(w, input_data)
          [] id = "M212" -> M212_process(w, input_data)
          [] id = "M220" -> M220_process(w, input_data)
          [] id = "M221" -> M221_process(w, input_data)
          [] id = "M222" -> M222_process(w, input_data), LAMBDA r :
      [r EXCEPT !.w.calls = Append(@, CallRecord(caller, id, input_data, r))])

-----------------------------------------------------------------------------
(* Construction: RootOrchestratorNode.__init__ and _init_children.         *)

Constructed(B) ==
    [total_budget     |-> B,
     leaf_allocations |-> <<>>,
     node_weights     |-> <<>>,
     weight_cache     |-> <<>>,
     cache_valid      |-> FALSE,
     token_allocation |-> [n \in Nodes |-> IF n = "M000" THEN B ELSE token_budget[n]],
     tokens_consumed  |-> [n \in Nodes |-> 0],
     connected        |-> [l \in Leaves |-> FALSE],
     interface        |-> [l \in Leaves |-> None],
     system_initialized |-> FALSE,
     workflow_history |-> <<>>,
     bytes_transferred |-> 0,
     calls            |-> <<>>]

Op(op, node, arg, ret) == [op |-> op, node |-> node, arg |-> arg, ret |-> ret]

Init ==
    \E B \in Budgets :
      \E w \in {distribute_tokens(Constructed(B)).w} :
        /\ WorldIs(w)
        /\ last = Op("init", "M000", B, <<>>)
        /\ steps = 0

-----------------------------------------------------------------------------
(* Operations on the balancer and on the token accounts.                   *)

Step == steps < MaxSteps /\ steps' = steps + 1

BalanceTokens ==
    /\ Step
    /\ \E r \in {balance_tokens(World, "M000")} :
           /\ SetWorld(r.w)
           /\ last' = Op("balance_tokens", "M000", <<>>, r.ret)

RebalanceFull ==
    /\ Step
    /\ \E r \in {rebalance_full(World, "M000")} :
           /\ SetWorld(r.w)
           /\ last' = Op("rebalance_full", "M000", <<>>, r.ret)

RebalancePartial ==
    /\ Step
    /\ \E sub \in PartialRoots :
         \E r \in {rebalance_partial(World, sub)} :
             /\ SetWorld(r.w)
             /\ last' = Op("rebalance_partial", sub, <<>>, r.ret)

UpdateWeight ==
    /\ Step
    /\ \E id \in UpdateIds, kwargs \in WeightUpdates :
       \E w \in {update_weight(World, id, kwargs)} :
         /\ SetWorld(w)
         /\ last' = Op("update_weight", id, kwargs,
                       IF "total_weight" \in DOMAIN kwargs
                       THEN <<"AttributeError">> ELSE <<>>)

RecordConsumption ==
    /\ Step
    /\ \E id \in RecordIds, amount \in Amounts :
       \E w \in {record_consumption(World, id, amount)} :
         /\ SetWorld(w)
         /\ last' = Op("record_consumption", id, amount, <<>>)

GetAllocation ==
    /\ Step
    /\ \E id \in RecordIds :
         /\ SetWorld(World)
         /\ last' = Op("get_allocation", id, <<>>, get_allocation(World, id))

ConsumeTokens ==
    /\ Step
    /\ \E n \in AccountNodes, amount \in Amounts :
         \E r \in {consume_tokens(World, n, amount)} :
             /\ SetWorld(r.w)
             /\ last' = Op("consume_tokens", n, amount, r.ret)

Next ==
    \/ BalanceTokens
    \/ RebalanceFull
    \/ RebalancePartial
    \/ UpdateWeight
    \/ RecordConsumption
    \/ GetAllocation
    \/ ConsumeTokens

Spec == Init /\ [][Next]_vars

(***************************************************************************)
(* Calls of process: the requests that callers send, node by node.  Each   *)
(* list holds the node's actions, a request it cannot serve, the requests  *)
(* that make its interface fail or fault, and one with an action it does   *)
(* not know.                                                               *)
(***************************************************************************)

MaxCalls == 2

MaxRuns == 3

\* what a transfer may report as bytes_transferred
Bytes == {0, 230}

LongPath ==
    "config/a-very-long-directory-name/with-more-nested-directories/and-still-more/settings.production.yaml"

Requests ==
    [id \in Nodes |->
       CASE id = "M111" ->
              << <<>>,
                 [action |-> "read", path |-> LongPath],
                 [action |-> "write", path |-> "config/settings.yaml",
                  data |-> [debug |-> TRUE]],
                 [action |-> "read", path |-> Unhashable],
                 [action |-> "bogus"] >>
         [] id = "M112" ->
              << [action |-> "log", level |-> "INFO", message |-> 150],
                 [action |-> "log", level |-> "BAD", message |-> 150],
                 [action |-> "read"],
                 [action |-> "clear"],
                 [action |-> "bogus"] >>
         [] id = "M121" ->
              << <<>>,
                 [action |-> "read", path |-> "missing.xlsx"],
                 [action |-> "write", path |-> "export.xlsx",
                  data |-> [Sheet1 |-> <<Row(7)>>]],
                 [action |-> "write", path |-> "export.xlsx",
                  data |-> NotAMapping],
                 [action |-> "get_sheet"],
                 [action |-> "add_row", data |-> Row(4)],
                 [action |-> "bogus"] >>
         [] id = "M122" ->
              << [action |-> "query", sql |-> "SELECT * FROM tenants"],
                 [action |-> "query", sql |-> "DROP TABLE tenants"],
                 [action |-> "execute", sql |-> "INSERT INTO tenants",
                  params |-> NotAMapping],
                 [action |-> "execute",
                  sql |-> "DELETE FROM tenants WHERE id = :id",
                  params |-> [id |-> 1]],
                 [action |-> "get_tenant", id |-> 1],
                 [action |-> "get_tenants"],
                 [action |-> "add_tenant", data |-> [name |-> "Unknown"]],
                 [action |-> "add_tenant", data |-> NotAMapping],
                 [action |-> "get_payments", tenant_id |-> 1],
                 [action |-> "bogus"] >>
         [] id = "M211" ->
              << [action |-> "call", tool |-> "get_tenant_info",
                  params |-> [tenant_id |-> 1]],
                 [action |-> "call", tool |-> "no_such_tool"],
                 [action |-> "call", tool |-> "get_tenant_info",
                  params |-> NotAMapping],
                 [action |-> "list"],
                 [action |-> "status"],
                 [action |-> "bogus"] >>
         [] id = "M212" ->
              << [action |-> "fetch", uri |-> "schema://tenant"],
                 [action |-> "fetch", uri |-> "schema://nothing"],
                 [action |-> "render", uri |-> "prompt://tenant-report",
                  variables |-> [name |-> "Unknown"]],
                 [action |-> "render", uri |-> "prompt://tenant-report",
                  variables |-> NotAMapping],
                 [action |-> "list"],
                 [action |-> "status"],
                 [action |-> "bogus"] >>
         [] id = "M221" ->
              << [method |-> "GET", url |-> "/api/tenants"],
                 [method |-> "get", url |-> "/api/tenants/1"],
                 [method |-> "GET", url |-> "/api/tenants/9"],
                 [method |-> "GET", url |-> "/api/tenants/abc"],
                 [method |-> "POST", url |-> "/api/tenants",
                  data |-> [name |-> "Unknown"]],
                 [method |-> "POST", url |-> "/api/tenants",
                  data |-> NotAMapping],
                 [method |-> "PUT", url |-> "/api/tenants/1",
                  data |-> [unit |-> "103"]],
                 [method |-> "DELETE", url |-> "/api/tenants/1"],
                 [method |-> "PATCH", url |-> "/api/tenants"],
                 [method |-> NotAString, url |-> "/api/tenants"],
                 [action |-> "bogus"] >>
         [] id = "M222" ->
              << <<>>,
                 [action |-> "generate", report_type |-> "tenant_statement",
                  data |-> NotAMapping],
                 [action |-> "generate", report_type |-> "balance_summary",
                  data |-> [tenants |-> <<Row(1)>>],
                  output_path |-> "reports/summary.pdf"],
                 [action |-> "read", path |-> "reports/summary.pdf"],
                 [action |-> "list"],
                 [action |-> "bogus"] >>
         [] id = "M110" ->
              << <<>>,
                 [action |-> "load_config", config_path |-> LongPath],
                 [action |-> "save_config", data |-> [debug |-> TRUE]],
                 [action |-> "log", log_level |-> "BAD", message |-> 150],
                 [action |-> "init_system"],
                 [action |-> "init_system", config_path |-> Unhashable],
                 [action |-> "bogus"] >>
         [] id = "M120" ->
              << <<>>,
                 [action |-> "get_tenants", source |-> "excel"],
                 [action |-> "get_tenants", source |-> "both"],
                 [action |-> "add_tenant", data |-> [name |-> "Unknown"]],
                 [action |-> "add_tenant", data |-> NotAMapping],
                 [action |-> "import_excel"],
                 [action |-> "import_excel", path |-> Unhashable],
                 [action |-> "export_excel"],
                 [action |-> "sync"],
                 [action |-> "query", sql |-> "SELECT * FROM tenants"],
                 [action |-> "bogus"] >>
         [] id = "M100" ->
              << <<>>,
                 [action |-> "initialize"],
                 [action |-> "initialize", config_path |-> Unhashable],
                 [action |-> "get_tenant_data", include_config |-> TRUE],
                 [action |-> "get_tenant_data", tenant_id |-> 9],
                 [action |-> "save_tenant", data |-> [name |-> "Unknown"]],
                 [action |-> "save_tenant", data |-> NotAMapping],
                 [action |-> "config_update", data |-> [debug |-> TRUE]],
                 [action |-> "sync_data"],
                 [action |-> "bogus"] >>
         [] id = "M210" ->
              << <<>>,
                 [action |-> "call_tool", tool |-> "get_tenant_info",
                  params |-> NotAMapping],
                 [action |-> "get_resource", resource |-> "schema://tenant"],
                 [action |-> "get_resource",
                  resource |-> "prompt://tenant-report",
                  variables |-> NotAMapping],
                 [action |-> "execute_with_prompt",
                  resource |-> "prompt://tenant-report",
                  tool |-> "analyze_payments"],
                 [action |-> "execute_with_prompt",
                  resource |-> "prompt://tenant-report",
                  tool |-> "analyze_payments", params |-> NotAMapping],
                 [action |-> "status"],
                 [action |-> "bogus"] >>
         [] id = "M220" ->
              << <<>>,
                 [action |-> "api_request", method |-> NotAString],
                 [action |-> "api_request", url |-> "/api/tenants"],
                 [action |-> "generate_pdf"],
                 [action |-> "fetch_and_report"],
                 [action |-> "fetch_and_report",
                  report_type |-> "tenant_statement"],
                 [action |-> "fetch_and_report", url |-> "/api/tenants/abc"],
                 [action |-> "multi_output"],
                 [action |-> "list_outputs"],
                 [action |-> "bogus"] >>
         [] id = "M200" ->
              << <<>>,
                 [action |-> "process_request"],
                 [action |-> "process_request", request_type |-> "tool",
                  tool |-> "get_tenant_info"],
                 [action |-> "process_request", request_type |-> "report"],
                 [action |-> "process_request", request_type |-> "bogus"],
                 [action |-> "generate_report", analyze |-> TRUE],
                 [action |-> "generate_report", analyze |-> TRUE,
                  report_type |-> "payment_history", data |-> NotAMapping],
                 [action |-> "execute_tool", tool |-> "get_tenant_info",
                  use_prompt |-> "prompt://tenant-report"],
                 [action |-> "full_pipeline"],
                 [action |-> "full_pipeline", tenant_id |-> 9],
                 [action |-> "capabilities"],
                 [action |-> "bogus"] >>
         [] id = "M000" ->
              << <<>>,
                 [action |-> "initialize"],
                 [action |-> "initialize", config_path |-> Unhashable],
                 [action |-> "full_workflow"],
                 [action |-> "full_workflow", data |-> NotAMapping],
                 [action |-> "full_workflow", workflow_type |-> "data_sync"],
                 [action |-> "full_workflow",
                  workflow_type |-> "full_pipeline"],
                 [action |-> "full_workflow", workflow_type |-> "bogus"],
                 [action |-> "route_request", target |-> "M122",
                  request |-> [action |-> "sync_data"]],
                 [action |-> "route_request", target |-> "M210",
                  request |-> [action |-> "capabilities"]],
                 [action |-> "route_request", target |-> "M199",
                  request |-> [action |-> "system_status"]],
                 [action |-> "route_request", target |-> "X100"],
                 [action |-> "route_request", target |-> NotAString],
                 [action |-> "rebalance"],
                 [action |-> "rebalance", type |-> "partial",
                  target |-> <<"M100", "M110">>],
                 [action |-> "rebalance", type |-> "partial",
                  target |-> <<"M100", "M210">>],
                 [action |-> "get_capabilities"],
                 [action |-> "bogus"] >>]

\* the call node.process(input_data) from outside the tree, the transfers of
\* this call reporting b bytes
Call(id, input_data, b) ==
    process([World EXCEPT !.bytes_transferred = b, !.calls = <<>>],
            None, id, input_data)

Process ==
    /\ steps < MaxCalls
    /\ steps' = steps + 1
    /\ \E id \in Nodes :
       \E i \in 1..Len(Requests[id]) :
       \E b \in Bytes :
       \E r \in {Call(id, Requests[id][i], b)} :
         /\ SetWorld(r.w)
         /\ last' = Op("process", id, Requests[id][i],
                       [raised |-> r.raised, result |-> r.result])

\* the Results that two children hand to aggregate_results
ChildResults ==
    << NodeResult(TRUE, [count |-> 3], NoText, 35, "M111"),
       NodeResult(TRUE, <<>>, NoText, 0, "M112"),
       NodeResult(FALSE, <<>>, <<"Unknown action: ", "bogus">>, 5, "M112"),
       NodeResult(FALSE, <<>>, <<"Not connected">>, 20, "M122"),
       NodeResult(FALSE, <<>>, NoText, 10, "M121") >>

AggregateResults ==
    /\ steps < MaxCalls
    /\ steps' = steps + 1
    /\ \E node \in {"M110", "M200"} :
       \E i \in 1..Len(ChildResults), j \in 1..Len(ChildResults) :
         /\ SetWorld(World)
         /\ last' = Op("aggregate_results", node,
                       <<ChildResults[i], ChildResults[j]>>,
                       aggregate_results(node, ChildResults[i],
                                         ChildResults[j]))

NextProcess ==
    \/ Process
    \/ AggregateResults

SpecProcess == Init /\ [][NextProcess]_vars

\* the data a tenant_report run is started with
WorkflowData == {<<>>, [id |-> 2], [name |-> "Unknown"]}

TenantReport ==
    /\ steps < MaxRuns
    /\ steps' = steps + 1
    /\ \E data \in WorkflowData :
       \E b \in Bytes :
       \E r \in {Call("M000", [action |-> "full_workflow",
                               workflow_type |-> "tenant_report",
                               data |-> data], b)} :
         /\ SetWorld(r.w)
         /\ last' = Op("process", "M000", data,
                       [raised |-> r.raised, result |-> r.result])

NextWorkflow == TenantReport

SpecWorkflow == Init /\ [][NextWorkflow]_vars

\* Pipeline runs on a database whose tenants table callers may have emptied:
\* rows are deleted through M122, leaves are connected again, and the root
\* runs its two pipelines.
MaxPipelineSteps == 4

DeleteTenant ==
    /\ steps < MaxPipelineSteps
    /\ steps' = steps + 1
    /\ \E id \in 1..3 :
       \E request \in {[action |-> "execute",
                        sql |-> "DELETE FROM tenants WHERE id = :id",
                        params |-> [id |-> id]]} :
       \E r \in {Call("M122", request, 0)} :
         /\ SetWorld(r.w)
         /\ last' = Op("process", "M122", request,
                       [raised |-> r.raised, result |-> r.result])

RunPipeline ==
    /\ steps < MaxPipelineSteps
    /\ steps' = steps + 1
    /\ \E workflow_type \in {"tenant_report", "full_pipeline"} :
       \E data \in WorkflowData :
       \E b \in Bytes :
       \E request \in {[action |-> "full_workflow",
                        workflow_type |-> workflow_type, data |-> data]} :
       \E r \in {Call("M000", request, b)} :
         /\ SetWorld(r.w)
         /\ last' = Op("process", "M000", request,
                       [raised |-> r.raised, result |-> r.result])

\* connect() called on a leaf by its owner: each leaf builds a new binding
Connect ==
    /\ steps < MaxPipelineSteps
    /\ steps' = steps + 1
    /\ \E id \in Leaves :
       \E w \in {IF id = "M122" THEN M122_connect(World)
                 ELSE connect(World, id,
                              CASE id = "M111" -> MockYAMLInterface
                                [] id = "M112" -> MockLogInterface
                                [] id = "M121" -> MockExcelInterface
                                [] id = "M211" -> MockMCPToolsInterface
                                [] id = "M212" -> MockMCPResourcesInterface
                                [] id = "M221" -> MockHTTPInterface
                                [] id = "M222" -> MockPDFInterface)} :
         /\ SetWorld(w)
         /\ last' = Op("connect", id, <<>>, w.connected[id])

\* a tenant's balance is overwritten with a text through M122
UpdateTenant ==
    /\ steps < MaxPipelineSteps
    /\ steps' = steps + 1
    /\ \E id \in 1..3 :
       \E request \in {[action |-> "execute",
                        sql |-> "UPDATE tenants SET balance = :balance WHERE id = :id",
                        params |-> [id |-> id, balance |-> NotANumber]]} :
       \E r \in {Call("M122", request, 0)} :
         /\ SetWorld(r.w)
         /\ last' = Op("process", "M122", request,
                       [raised |-> r.raised, result |-> r.result])

NextPipeline ==
    \/ DeleteTenant
    \/ UpdateTenant
    \/ RunPipeline
    \/ Connect

SpecPipeline == Init /\ [][NextPipeline]_vars

\* Path resolution: the root resolves dot-separated paths of at most
\* MaxPathLen parts.
MaxPathLen == 3

MaxPathCalls == 1

PathParts == {"M000", "M100", "M110", "M111", "M120", "M200", ""}

GetNodeByPath ==
    /\ steps < MaxPathCalls
    /\ steps' = steps + 1
    /\ \E n \in 1..MaxPathLen :
       \E path \in [1..n -> PathParts] :
         /\ SetWorld(World)
         /\ last' = Op("get_node_by_path", "M000", path, get_node_by_path(path))

SpecPath == Init /\ [][GetNodeByPath]_vars


-----------------------------------------------------------------------------
(* Properties.                                                             *)

HistoricalUsage(nw, id) ==
    IF id \in DOMAIN nw THEN nw[id].historical_usage ELSE NodeWeight.historical_usage

\* C1: balance_tokens returns an allocation for exactly the 8 leaves, and
\* the allocations sum exactly to the budget, whatever the leaf weights.
C1_Conservation ==
    last.op = "balance_tokens" =>
        /\ DOMAIN last.ret = Leaves
        /\ SumOver(last.ret, Leaves) = total_budget

\* a distribution over updated weights in which one leaf weighs nothing
C1_Witness ==
    /\ last.op = "balance_tokens"
    /\ total_budget = 1000
    /\ "M111" \in DOMAIN node_weights
    /\ node_weights["M111"].historical_usage = <<0, 1>>
    /\ last.ret["M111"] = 0
    /\ last.ret["M112"] > 125

\* C2: rebalance_partial leaves the allocation record and the token account
\* of every leaf outside the subtree as they were.
C2_PartialFrame ==
    [][last'.op = "rebalance_partial" =>
        \A l \in Leaves \ SubtreeLeaves(last'.node) :
            /\ (l \in DOMAIN leaf_allocations') = (l \in DOMAIN leaf_allocations)
            /\ l \in DOMAIN leaf_allocations =>
                  leaf_allocations'[l] = leaf_allocations[l]
            /\ token_allocation'[l] = token_allocation[l]
            /\ tokens_consumed'[l] = tokens_consumed[l]]_vars

\* the left manager was rebalanced after a weight change under it, with
\* consumption recorded on a leaf of the right subtree
C2_Witness ==
    /\ last.op = "rebalance_partial"
    /\ last.node = "M100"
    /\ leaf_allocations["M221"].consumed > 0
    /\ leaf_allocations["M111"].allocated # leaf_allocations["M121"].allocated

\* C3: rebalance_full multiplies historical_usage by 1.1 for a leaf whose
\* utilization before the rebalance was above 0.8, by 0.9 when it was below
\* 0.2, and keeps it otherwise.
C3_FullAdjustsUsage ==
    [][last'.op = "rebalance_full" =>
        \A l \in DOMAIN leaf_allocations :
            LET u   == utilization(leaf_allocations[l])
                old == HistoricalUsage(node_weights, l)
                new == HistoricalUsage(node_weights', l)
            IN  new = IF RLess(Round(<<4, 5>>, 0), u) THEN RMul(old, Round(<<11, 10>>, 0))
                      ELSE IF RLess(u, Round(<<1, 5>>, 0)) THEN RMul(old, Round(<<9, 10>>, 0))
                      ELSE old]_vars

\* C4: the consumed tokens of a node never exceed its allocation.
C4_ConsumedWithinAllocation ==
    \A n \in Nodes : tokens_consumed[n] <= token_allocation[n]

\* C6: consume_tokens rejects an amount above tokens_remaining, returning
\* False and changing nothing; otherwise it returns True and adds exactly
\* the amount to consumed, leaving allocated unchanged.
C6_ConsumeTokens ==
    [][last'.op = "consume_tokens" =>
        LET n == last'.node
            amount == last'.arg
        IN  /\ token_allocation' = token_allocation
            /\ IF amount > token_allocation[n] - tokens_consumed[n]
               THEN /\ last'.ret = FALSE
                    /\ tokens_consumed' = tokens_consumed
               ELSE /\ last'.ret = TRUE
                    /\ tokens_consumed' =
                          [tokens_consumed EXCEPT ![n] = @ + amount]]_vars

\* a request is rejected on an account that was debited before
C6_Witness ==
    /\ last.op = "consume_tokens"
    /\ last.ret = FALSE
    /\ tokens_consumed[last.node] > 0
    /\ last.arg > token_allocation[last.node] - tokens_consumed[last.node]

\* the base token cost of each leaf: the value its process starts tokens_used
\* from
BaseCost ==
    [id \in Nodes |->
       CASE id = "M000" -> 30
         [] id = "M100" -> 20
         [] id = "M110" -> 5
         [] id = "M120" -> 10
         [] id = "M200" -> 25
         [] id = "M210" -> 15
         [] id = "M220" -> 10
         [] id = "M111" -> 10
         [] id = "M112" -> 5
         [] id = "M121" -> 15
         [] id = "M122" -> 20
         [] id = "M211" -> 50
         [] id = "M212" -> 30
         [] id = "M221" -> 25
         [] id = "M222" -> 40]

\* C5: the tokens_used that a leaf's process reports is at least 0 and at most
\* the tokens_remaining of the leaf when it was called.
C5_LeafWithinRemaining ==
    [][(last'.op = "process" /\ last'.node \in Leaves /\ ~last'.ret.raised) =>
         /\ last'.ret.result.tokens_used >= 0
         /\ last'.ret.result.tokens_used <= tokens_remaining(World, last'.node)
      ]_vars

\* C7: a leaf's process that returns a failed Result has debited at least the
\* leaf's base cost from its token account, when that many tokens remained.
C7_FailureDebitsBaseCost ==
    [][(/\ last'.op = "process"
        /\ last'.node \in Leaves
        /\ ~last'.ret.raised
        /\ ~last'.ret.result.success
        /\ tokens_remaining(World, last'.node) >= BaseCost[last'.node]) =>
         tokens_consumed'[last'.node]
            >= tokens_consumed[last'.node] + BaseCost[last'.node]]_vars

\* C8: process({"action": "bogus"}), on any of the 15 nodes, returns a failed
\* Result whose error text contains "bogus", and no child's process is called.
C8_UnknownAction ==
    [][(last'.op = "process" /\ DOMAIN last'.arg = {"action"}
        /\ last'.arg.action = "bogus") =>
         /\ ~last'.ret.raised
         /\ ~last'.ret.result.success
         /\ \E i \in DOMAIN last'.ret.result.error :
               last'.ret.result.error[i] = "bogus"
         /\ Len(calls') = 1]_vars

\* C9: process returns a Result for every request; it never raises.
C9_NeverRaises ==
    [][last'.op = "process" => ~last'.ret.raised]_vars

\* C10: after n tenant_report runs on a new root the workflow history has n
\* entries, entry i carrying the id WF-000i and the tokens of run i; a run
\* appends its entry and leaves the earlier ones as they were.
C10_WorkflowHistory ==
    [][last'.op = "process" =>
         /\ Len(workflow_history') = steps'
         /\ \A i \in 1..Len(workflow_history') :
               workflow_history'[i].id =
                  [prefix |-> "WF-", digits |-> <<0, 0, 0, i>>]
         /\ SubSeq(workflow_history', 1, Len(workflow_history))
               = workflow_history
         /\ workflow_history'[steps'].tokens_used
               = last'.ret.result.tokens_used
         /\ workflow_history'[steps'].success = last'.ret.result.success
         /\ last'.ret.result.data.workflow_id = workflow_history'[steps'].id
      ]_vars

\* the second of two runs has been recorded after the first
C10_Witness ==
    /\ last.op = "process"
    /\ steps = 2
    /\ Len(workflow_history) = 2
    /\ workflow_history[1].id.digits = <<0, 0, 0, 1>>
    /\ workflow_history[2].id.digits = <<0, 0, 0, 2>>

\* C11: a run of the tenant_report or of the full_pipeline workflow through
\* the root's full_workflow action appends exactly one entry to the workflow
\* history, and no call of process removes or changes an existing entry.
C11_HistoryAppendOnly ==
    [][last'.op = "process" =>
         /\ Len(workflow_history') >= Len(workflow_history)
         /\ SubSeq(workflow_history', 1, Len(workflow_history))
               = workflow_history
         /\ (/\ last'.node = "M000"
             /\ Get(last'.arg, "action", "status") = "full_workflow"
             /\ Get(last'.arg, "workflow_type", "tenant_report")
                   \in {"tenant_report", "full_pipeline"}
             /\ IsMapping(Get(last'.arg, "data", <<>>)))
            => Len(workflow_history') = Len(workflow_history) + 1]_vars

\* C12: a run of the tenant_report or of the full_pipeline workflow makes the
\* root call, in this order, get_tenant_data on its left child, execute_tool
\* on its right child and generate_report on its right child, whatever the
\* earlier steps returned.
C12_StepsInOrder ==
    [][(/\ last'.op = "process"
        /\ last'.node = "M000"
        /\ Get(last'.arg, "action", "status") = "full_workflow"
        /\ Get(last'.arg, "workflow_type", "tenant_report")
              \in {"tenant_report", "full_pipeline"}
        /\ IsMapping(Get(last'.arg, "data", <<>>))) =>
         LET invoked == SelectSeq(calls', LAMBDA c : c.caller = "M000")
         IN  /\ Len(invoked) = 3
             /\ invoked[1].node = "M100"
             /\ invoked[1].request.action = "get_tenant_data"
             /\ invoked[2].node = "M200"
             /\ invoked[2].request.action = "execute_tool"
             /\ invoked[3].node = "M200"
             /\ invoked[3].request.action = "generate_report"]_vars

\* C13: the root's rebalance action, of type full or of type partial with a
\* target path that resolves, does not resolve or is absent, returns a
\* successful Result whose allocation map has an entry for each of the 8
\* leaves.
C13_RebalanceCoversLeaves ==
    [][(/\ last'.op = "process"
        /\ last'.node = "M000"
        /\ Get(last'.arg, "action", "status") = "rebalance") =>
         /\ ~last'.ret.raised
         /\ last'.ret.result.success
         /\ DOMAIN last'.ret.result.data.allocations = Leaves]_vars

\* C14: when update_weight raises the priority, the historical_usage or the
\* complexity of one leaf, lowers none of them and leaves its queue_depth
\* and every other weight as they are, balance_tokens on the same tree and
\* budget gives that leaf at least the allocation it gave it before the
\* update.
C14_MonotoneAllocation ==
    [][(/\ last'.op = "update_weight"
        /\ LET old == IF last'.node \in DOMAIN node_weights
                      THEN node_weights[last'.node] ELSE NodeWeight
               new == node_weights'[last'.node]
           IN  /\ new # old
               /\ new.queue_depth = old.queue_depth
               /\ new.priority >= old.priority
               /\ ~RLess(new.historical_usage, old.historical_usage)
               /\ ~RLess(new.complexity, old.complexity)) =>
         balance_tokens(World', "M000").ret[last'.node]
            >= balance_tokens(World, "M000").ret[last'.node]]_vars

\* C15: a rebalance_full that directly follows a rebalance_full, with no
\* record_consumption and no update_weight between the two, returns the map
\* of leaf allocations that the first one returned.
C15_FullIdempotent ==
    [][(last.op = "rebalance_full" /\ last'.op = "rebalance_full") =>
          last'.ret = last.ret]_vars

\* a full rebalance over changed weights has returned an uneven map, and
\* running it again from here returns that map
C15_Witness ==
    /\ last.op = "rebalance_full"
    /\ steps >= 2
    /\ total_budget = 1000
    /\ "M111" \in DOMAIN node_weights
    /\ node_weights["M111"] # NodeWeight
    /\ last.ret["M111"] # last.ret["M112"]
    /\ rebalance_full(World, "M000").ret = last.ret

\* C16: get_allocation(id) returns the value that the latest balance_tokens,
\* rebalance_full or rebalance_partial assigned to the leaf: the entry of
\* the map that call returned when get_allocation directly follows it, and
\* a value that no operation other than these three changes.  For an id
\* without an allocation record it returns 0.  It changes no state.
C16_GetAllocation ==
    [][/\ (/\ last'.op = "get_allocation"
           /\ last.op \in {"balance_tokens", "rebalance_full",
                           "rebalance_partial"}
           /\ last'.node \in DOMAIN last.ret) =>
             last'.ret = last.ret[last'.node]
       /\ last'.op = "get_allocation" =>
             /\ World' = World
             /\ last'.ret = get_allocation(World, last'.node)
             /\ last'.node \notin DOMAIN leaf_allocations => last'.ret = 0
       /\ last'.op \in {"get_allocation", "update_weight",
                        "record_consumption", "consume_tokens"} =>
             \A id \in Leaves \cup RecordIds :
                get_allocation(World', id) = get_allocation(World, id)
      ]_vars

\* get_allocation has returned the allocation of a leaf on which consumption
\* was recorded since the distribution
C16_Witness ==
    /\ last.op = "get_allocation"
    /\ last.node \in DOMAIN leaf_allocations
    /\ leaf_allocations[last.node].consumed > 0
    /\ last.ret = leaf_allocations[last.node].allocated
    /\ last.ret > 0

\* C17: the root's route_request calls process on exactly one child: on the
\* left child when the target id starts with "M1", on the right child for
\* every other target id.
C17_RouteToOneChild ==
    [][(/\ last'.op = "process"
        /\ last'.node = "M000"
        /\ Get(last'.arg, "action", "status") = "route_request"
        /\ Get(last'.arg, "target", "M100") # NotAString) =>
         LET invoked == SelectSeq(calls', LAMBDA c : c.caller = "M000")
         IN  /\ Len(invoked) = 1
             /\ invoked[1].node = IF Get(last'.arg, "target", "M100") \in IdsOfM1
                                  THEN "M100" ELSE "M200"]_vars

\* C18: aggregate_results(left, right) fails exactly when both child Results
\* failed, its error text then containing both child errors; otherwise it
\* succeeds with the payload {left, right}.  Its tokens_used is the sum of
\* the two children's, so that swapping the children changes neither the
\* success flag nor the tokens.
C18_AggregateResults ==
    [][last'.op = "aggregate_results" =>
         LET l == last'.arg[1]
             r == last'.arg[2]
             res == last'.ret
             swapped == aggregate_results(last'.node, r, l)
             Contains(text, part) ==
                 \E i \in 1..(Len(text) + 1) :
                    SubSeq(text, i, i + Len(part) - 1) = part
         IN  /\ res.success = (l.success \/ r.success)
             /\ res.tokens_used = l.tokens_used + r.tokens_used
             /\ res.node_id = last'.node
             /\ ~res.success =>
                   /\ Contains(res.error, Str(l.error))
                   /\ Contains(res.error, Str(r.error))
             /\ res.success =>
                   /\ res.data = [left |-> l.data, right |-> r.data]
                   /\ res.error = NoText
             /\ swapped.success = res.success
             /\ swapped.tokens_used = res.tokens_used
             /\ World' = World]_vars

\* a failed child and a successful one were merged: the merge succeeded and
\* counts the tokens of the failed child
C18_Witness ==
    /\ last.op = "aggregate_results"
    /\ ~last.arg[1].success
    /\ last.arg[2].success
    /\ last.arg[1].tokens_used > 0
    /\ last.ret.success
    /\ last.ret.tokens_used = last.arg[1].tokens_used + last.arg[2].tokens_used

\* C19: connect on a leaf that is already connected returns true and leaves
\* the leaf's state as it was, the state held by its binding included: what
\* was written through the leaf before is still there afterwards.
C19_ConnectIdempotent ==
    [][(last'.op = "connect" /\ connected[last'.node]) =>
          /\ last'.ret = TRUE
          /\ connected'[last'.node]
          /\ interface'[last'.node] = interface[last'.node]]_vars

\* for every node under n and n itself, the sum, pair by pair up the tree, of
\* the total_weight that its leaves have now
RECURSIVE SubtreeWeights(_, _)
SubtreeWeights(nw, n) ==
    IF is_leaf(n)
    THEN n :> total_weight(IF n \in DOMAIN nw THEN nw[n] ELSE NodeWeight)
    ELSE Let(SubtreeWeights(nw, left_child_id[n]), LAMBDA l :
         Let(SubtreeWeights(nw, right_child_id[n]), LAMBDA r :
           (n :> RAdd(l[left_child_id[n]], r[right_child_id[n]])) @@ l @@ r))

\* C20: after any sequence of update_weight, balance_tokens, rebalance_full
\* and rebalance_partial calls, _calculate_weight returns for every node the
\* sum of the weights its leaves have now, never a weight cached before the
\* latest update, and the weights a distribution has just split its budget
\* by are those sums.
C20_FreshWeights ==
    last.op \in {"update_weight", "balance_tokens",
                 "rebalance_full", "rebalance_partial"} =>
      Let(SubtreeWeights(node_weights, "M000"), LAMBDA sums :
        \* what _calculate_weight returns for a node is what it leaves in
        \* the cache for it
        /\ Let(calculate_weight(World, "M000"), LAMBDA r :
               \A n \in Nodes : /\ n \in DOMAIN r.w.weight_cache
                                /\ r.w.weight_cache[n] = sums[n])
        /\ last.op # "update_weight" =>
              \A n \in Nodes \ {last.node} :
                 SubtreeLeaves(n) \subseteq SubtreeLeaves(last.node) =>
                    /\ n \in DOMAIN weight_cache
                    /\ weight_cache[n] = sums[n])

\* a partial rebalance of M100 that splits a budget by a weight of M111 set
\* after the allocation it redistributes was made
C20_Witness ==
    /\ last.op = "rebalance_partial"
    /\ last.node = "M100"
    /\ "M111" \in DOMAIN node_weights
    /\ node_weights["M111"].historical_usage = <<2, 1>>
    /\ "M110" \in DOMAIN weight_cache
    /\ weight_cache["M110"] = <<5, 1>>
    /\ last.ret["M111"] > last.ret["M112"]
    /\ last.ret["M112"] > 0

\* C21: rebalance_partial, called after an initial distribution and any
\* weight updates, leaves the sum of the allocations of the subtree's leaves
\* as it was before the call, and the total over the 8 leaves equal to the
\* global budget.
C21_PartialKeepsSum ==
    [][last'.op = "rebalance_partial" =>
        LET before == [l \in Leaves |-> IF l \in DOMAIN leaf_allocations
                                        THEN leaf_allocations[l].allocated ELSE 0]
            after  == [l \in Leaves |-> IF l \in DOMAIN leaf_allocations'
                                        THEN leaf_allocations'[l].allocated ELSE 0]
        IN  /\ SumOver(after, SubtreeLeaves(last'.node))
                  = SumOver(before, SubtreeLeaves(last'.node))
            /\ SumOver(after, Leaves) = total_budget']_vars

\* the left manager was rebalanced after a weight change and recorded
\* consumption under it, and its leaves now hold different shares of the
\* budget it had
C21_Witness ==
    /\ last.op = "rebalance_partial"
    /\ last.node = "M100"
    /\ total_budget = 1000
    /\ "M111" \in DOMAIN node_weights
    /\ node_weights["M111"].historical_usage = <<2, 1>>
    /\ leaf_allocations["M111"].allocated > leaf_allocations["M112"].allocated
    /\ leaf_allocations["M111"].allocated + leaf_allocations["M112"].allocated
         + leaf_allocations["M121"].allocated + leaf_allocations["M122"].allocated = 500

\* C22: when the weights of both subtrees of an internal node are 0,
\* _distribute raises nothing and splits the node's budget evenly between
\* the two children.
C22_ZeroWeightsSplitEvenly ==
    [][(/\ last'.op = "rebalance_partial"
        /\ last'.node \in Internal
        /\ \A l \in SubtreeLeaves(last'.node) :
              total_weight(IF l \in DOMAIN node_weights
                           THEN node_weights[l] ELSE NodeWeight) = <<0, 1>>) =>
          LET after == [l \in Leaves |-> get_allocation(World', l)]
              left  == SumOver(after, SubtreeLeaves(left_child_id[last'.node]))
              right == SumOver(after, SubtreeLeaves(right_child_id[last'.node]))
          IN  left - right \in {-1, 0, 1}]_vars

\* C23: the tokens_used of the Result that an internal node returns for a
\* request is the node's own base cost plus the tokens_used of every child
\* process call it made while handling the request.
C23_TokensSummed ==
    [][(/\ last'.op = "process"
        /\ last'.node \in Internal
        /\ ~last'.ret.raised) =>
         LET invoked == SelectSeq(calls', LAMBDA c : c.caller = last'.node)
             used    == [i \in 1..Len(invoked) |-> invoked[i].tokens_used]
             workflow == Get(last'.arg, "workflow_type", "tenant_report")
             own     == IF /\ last'.node = "M000"
                           /\ Get(last'.arg, "action", "status") = "full_workflow"
                           /\ workflow \in {"tenant_report", "full_pipeline"}
                        THEN IF workflow = "tenant_report" THEN 50 ELSE 100
                        ELSE BaseCost[last'.node]
         IN  last'.ret.result.tokens_used
               = own + SumOver(used, 1..Len(invoked))]_vars

C25_PathIsChain ==
    [][last'.op = "get_node_by_path" =>
         LET path == last'.arg
             Child(p, c) == /\ p \in Internal
                            /\ c \in {left_child_id[p], right_child_id[p]}
             IsChain == /\ path[1] = "M000" \/ Child("M000", path[1])
                        /\ \A i \in 1..(Len(path) - 1) : Child(path[i], path[i + 1])
         IN  last'.ret = IF IsChain THEN path[Len(path)] ELSE None]_vars

\* C26: update_weight changes only the named factors of the given node's
\* NodeWeight and empties the weight cache; every allocation record and every
\* leaf's token account stay as they were.
C26_UpdateWeightFrame ==
    [][last'.op = "update_weight" =>
         LET id     == last'.node
             kwargs == last'.arg
             old    == IF id \in DOMAIN node_weights THEN node_weights[id] ELSE NodeWeight
         IN  /\ DOMAIN node_weights' = DOMAIN node_weights \cup {id}
             /\ \A n \in DOMAIN node_weights \ {id} : node_weights'[n] = node_weights[n]
             /\ \A k \in WeightKeys :
                   node_weights'[id][k] = IF k \in DOMAIN kwargs THEN kwargs[k] ELSE old[k]
             /\ weight_cache' = <<>>
             /\ ~cache_valid'
             /\ leaf_allocations' = leaf_allocations
             /\ token_allocation' = token_allocation
             /\ tokens_consumed' = tokens_consumed
             /\ total_budget' = total_budget]_vars

\* C27: the consumed of a leaf's allocation record is the sum of the amounts
\* passed to record_consumption for the leaf since a distribution last
\* created the record: a distribution starts it at 0, record_consumption
\* adds its amount, and nothing else changes it.  record_consumption for an
\* id without a record leaves the allocator state unchanged.
C27_ConsumedIsSum ==
    [][LET Consumed(la, l) == IF l \in DOMAIN la THEN la[l].consumed ELSE 0
           created ==
               IF last'.op \in {"balance_tokens", "rebalance_full", "rebalance_partial"}
               THEN SubtreeLeaves(last'.node) ELSE {}
       IN  /\ \A l \in created : Consumed(leaf_allocations', l) = 0
           /\ \A l \in Leaves \ created :
                 Consumed(leaf_allocations', l) =
                    Consumed(leaf_allocations, l)
                      + (IF last'.op = "record_consumption" /\ last'.node = l
                         THEN last'.arg ELSE 0)
           /\ (last'.op = "record_consumption"
                 /\ last'.node \notin DOMAIN leaf_allocations) => World' = World]_vars

\* two amounts were recorded for M111 since its record was created
C27_Witness ==
    /\ last.op = "record_consumption"
    /\ last.node = "M111"
    /\ last.arg = 5
    /\ leaf_allocations["M111"].consumed = 17

\* C28: after construction and after any sequence of process requests, the
\* allocation of each leaf's token account equals the balancer's
\* get_allocation for that leaf.
C28_AccountsFollowBalancer ==
    \A l \in Leaves : token_allocation[l] = get_allocation(World, l)

\* the root has redistributed below M110 after leaves debited their accounts
C28_Witness ==
    /\ last.op = "process"
    /\ last.node = "M000"
    /\ Get(last.arg, "action", "status") = "rebalance"
    /\ Get(last.arg, "target", NoPath) = <<"M100", "M110">>
    /\ ~last.ret.raised
    /\ last.ret.result.success
    /\ tokens_consumed["M111"] > 0
    /\ token_allocation["M111"] = 125
    /\ get_allocation(World, "M111") = 125

\* C29: whatever the requests processed, the consumed of every allocation
\* record of the balancer is 0, however many tokens the leaves have debited
\* from their own accounts: the utilization the balancer reports does not
\* follow the leaves' consumption.
C29_BalancerSeesNoConsumption ==
    /\ \A l \in DOMAIN leaf_allocations : leaf_allocations[l].consumed = 0
    /\ \A l \in DOMAIN leaf_allocations :
          /\ get_utilization_report(World)[l].consumed = 0
          /\ get_utilization_report(World)[l].remaining = leaf_allocations[l].allocated

\* a root status request answered after leaves under it debited tokens
C29_Witness ==
    /\ last.op = "process"
    /\ last.node = "M000"
    /\ Get(last.arg, "action", "status") = "status"
    /\ ~last.ret.raised
    /\ \E l \in Leaves : /\ tokens_consumed[l] > 0
                          /\ leaf_allocations[l].allocated > 0
                          /\ leaf_allocations[l].consumed = 0

\* C30: the success of a tenant_report run, in its Result and in its history
\* entry, is the success of its generate_report step alone, whatever the
\* success of the config-load and tool steps; the success of a full_pipeline
\* run is true exactly when its three steps succeeded.
C30_OverallSuccess ==
    [][(/\ last'.op = "process"
        /\ last'.node = "M000"
        /\ Get(last'.arg, "action", "status") = "full_workflow"
        /\ ~last'.ret.raised) =>
         LET invoked  == SelectSeq(calls', LAMBDA c : c.caller = "M000")
             result   == last'.ret.result
             workflow == Get(last'.arg, "workflow_type", "tenant_report")
         IN  /\ (workflow = "tenant_report" /\ Len(invoked) = 3) =>
                   /\ invoked[3].request.action = "generate_report"
                   /\ result.success = invoked[3].success
                   /\ Len(workflow_history') = Len(workflow_history) + 1
                   /\ workflow_history'[Len(workflow_history')].success
                        = invoked[3].success
             /\ workflow = "full_pipeline" =>
                   result.success =
                      (/\ Len(invoked) = 3
                       /\ \A i \in 1..3 : invoked[i].success)]_vars

\* a tenant_report run whose report step failed on a balance that is a text,
\* after its config-load and tool steps succeeded
C30_Witness ==
    /\ last.op = "process"
    /\ last.node = "M000"
    /\ Get(last.arg, "action", "status") = "full_workflow"
    /\ Get(last.arg, "workflow_type", "tenant_report") = "tenant_report"
    /\ ~last.ret.raised
    /\ ~last.ret.result.success
    /\ Len(SelectSeq(calls, LAMBDA c : c.caller = "M000")) = 3
    /\ SelectSeq(calls, LAMBDA c : c.caller = "M000")[1].success
    /\ SelectSeq(calls, LAMBDA c : c.caller = "M000")[2].success
    /\ ~SelectSeq(calls, LAMBDA c : c.caller = "M000")[3].success
    /\ Len(workflow_history) > 0
    /\ ~workflow_history[Len(workflow_history)].success

====
